---------------------------- MODULE Spec2Model ----------------------------
(***************************************************************************)
(* Retrieval and answer orchestration of Core_RAG:                         *)
(*   core_rag/retrieval/search.py        SearchEngine                      *)
(*   core_rag/retrieval/unified_rag.py   UnifiedRAG                        *)
(*   core_rag/retrieval/query_router.py  QueryRouter                       *)
(*   core_rag/retrieval/answer.py        AnswerGenerator                   *)
(*   core_rag/retrieval/llm_handler.py   LLMHandler                        *)
(*   core_rag/summary/summary_retriever.py SummaryRetriever                *)
(*                                                                         *)
(* Seven specifications share the module:                                  *)
(*   SpecSearch  search_multiple_collections, one loop iteration a step    *)
(*   SpecRouter  the three entry points of QueryRouter                     *)
(*   Spec        AnswerGenerator.answer_question, one stage a step         *)
(*   SpecUnified UnifiedRAG.answer_question called from two threads, with  *)
(*               _get_reranker one read or write of self.reranker a step   *)
(*   SpecDocId   generate_doc_id called by two processes                   *)
(*   SpecIngest  FileIngestor.ingest_file and SummaryIndexer over the      *)
(*               stores they write, one stage a step                       *)
(*   SpecSummary SummaryRetriever.get_documents_by_summaries               *)
(***************************************************************************)
EXTENDS Integers, Sequences, FiniteSets, TLC

VARIABLES
    sm,        \* activation of search_multiple_collections (SpecSearch)
    engine,    \* SearchEngine / UnifiedRAG fields read by the search path
    router,    \* QueryRouter fields: config, ollama_api
    rq,        \* activation of a QueryRouter entry point (SpecRouter)
    ag,        \* AnswerGenerator fields set by the constructor
    aq,        \* activation of AnswerGenerator.answer_question (Spec)
    ur,        \* UnifiedRAG fields: config, query_router, rerank_disabled, reranker
    uq,        \* activations of UnifiedRAG.answer_question, one a thread (SpecUnified)
    di,        \* calls of generate_doc_id, one a process (SpecDocId)
    ing,       \* FileIngestor, SummaryIndexer and the stores they write (SpecIngest)
    gd         \* activation of get_documents_by_summaries (SpecSummary)

searchVars == <<sm, engine>>
routerVars == <<router, rq>>
answerVars == <<ag, aq>>
unifiedVars == <<ur, uq>>
vars == <<sm, engine, router, rq, ag, aq, ur, uq, di, ing, gd>>

(***************************************************************************)
(* Python values                                                           *)
(***************************************************************************)
\* Optional values: None is the empty tuple, a present value v is <<v>>
None == <<>>
Some(v) == <<v>>

\* a call either returns a value or raises
Ok(v)      == [ok |-> TRUE, val |-> v]
Raise(exc) == [ok |-> FALSE, exc |-> exc]

Min(a, b) == IF a <= b THEN a ELSE b
Max(a, b) == IF a >= b THEN a ELSE b

\* seq[:n]
Slice(seq, n) == SubSeq(seq, 1, Min(Len(seq), n))

(***************************************************************************)
(* Fragment texts.  A text is kept run-length encoded, a sequence of       *)
(* <<character, count>> runs, so that texts longer than 200 characters and *)
(* their 200-character prefixes are exact.                                 *)
(***************************************************************************)
TextLen(t) == IF t = <<>> THEN 0
              ELSE LET S[i \in 0..Len(t)] == IF i = 0 THEN 0 ELSE S[i - 1] + t[i][2]
                   IN  S[Len(t)]

\* text[:n]
RECURSIVE StrSlice(_, _)
StrSlice(t, n) ==
    IF n <= 0 \/ t = <<>> THEN <<>>
    ELSE IF Head(t)[2] <= n THEN <<Head(t)>> \o StrSlice(Tail(t), n - Head(t)[2])
    ELSE << <<Head(t)[1], n>> >>

FingerprintLen == 200

\* key = r.get('text', '')[:200]
Fingerprint(r) == StrSlice(r.text, FingerprintLen)

TextA     == << <<"a", FingerprintLen>> >>
TextAB    == << <<"a", FingerprintLen>>, <<"b", 1>> >>
TextShort == << <<"a", FingerprintLen - 1>>, <<"b", 1>> >>

Texts == { TextA, TextAB, TextShort }

(***************************************************************************)
(* Scores.  Vector-store similarities and fused scores are kept as         *)
(* integers in units of 1/ScoreScale; ScoreScale is a multiple of 61..65   *)
(* so that 1/(60 + rank) is exact for the first five ranks.                *)
(***************************************************************************)
ScoreScale == 61 * 62 * 63 * 32 * 65
MaxScore == 2
Scores == { i * (ScoreScale \div 64) : i \in 1..MaxScore }

Collections == {"c1", "c2"}

\* a vector-store point payload as the search path reads it
Hit(t, s, d) == [text |-> t, score |-> s, doc_id |-> d]

\* {'text', 'score', 'metadata': {'doc_id'}, 'collection'}
Fragment(h, c) == [text |-> h.text, score |-> h.score, doc_id |-> h.doc_id, collection |-> c]

(***************************************************************************)
(* Configuration (read-only).  A key that is absent is None and resolves   *)
(* to the default written in the code.                                     *)
(***************************************************************************)
CfgGet(opt, default) == IF opt = None THEN default ELSE opt[1]

DefaultBaseChunks == 8
DefaultPriorityBoost == 4
DefaultTopKPerCollection == 8

RagConfigs ==
    { [base_chunks_per_collection |-> None, priority_boost |-> None, collection_priority |-> None],
      [base_chunks_per_collection |-> Some(1), priority_boost |-> Some(1),
       collection_priority |-> Some(<<"c1">>)] }

SeqToSet(seq) == { seq[i] : i \in 1..Len(seq) }

\* (every collection given the base budget)
ChunkAllocationFlat(rag, names) ==
    [n \in SeqToSet(names) |-> CfgGet(rag.base_chunks_per_collection, DefaultBaseChunks)]

\* AnswerGenerator._chunk_allocation / UnifiedRAG._calculate_chunk_allocation
ChunkAllocation(rag, names) ==
    LET base     == CfgGet(rag.base_chunks_per_collection, DefaultBaseChunks)
        boost    == CfgGet(rag.priority_boost, DefaultPriorityBoost)
        priority == SeqToSet(CfgGet(rag.collection_priority, names)) \cap SeqToSet(names)
    IN  [n \in SeqToSet(names) |-> IF n \in priority THEN base + boost ELSE base]

\* (chunk_allocation or {}).get(name, top_k_per_collection)
AllocatedTopK(alloc, name) ==
    IF alloc = None \/ name \notin DOMAIN alloc[1] THEN DefaultTopKPerCollection
    ELSE alloc[1][name]

(***************************************************************************)
(* External services of one collection, as one query sees them:            *)
(*   embed_ok            the embedding call returns a vector               *)
(*   vector_ok, vector   the vector-store query returns / its ranked hits  *)
(*   sparse_ok, sparse   the sparse-index query returns / its ranked hits  *)
(* A failing call raises.  A store returns the first `limit` of its hits.  *)
(***************************************************************************)
\* SearchEngine.dense_search
DenseSearch(b, name, top_k) ==
    IF ~b.embed_ok THEN Ok(<<>>)
    ELSE IF ~b.vector_ok THEN Raise("vector_store")
    ELSE Ok([i \in 1..Len(Slice(b.vector, top_k)) |-> Fragment(b.vector[i], name)])

\* 1-indexed rank of the fragment keyed `key` in a ranked list, 0 when absent
RankOf(list, key) ==
    LET at == { i \in 1..Len(list) : list[i].text = key }
    IN  IF at = {} THEN 0 ELSE CHOOSE i \in at : \A j \in at : i <= j

RRFTerm(list, key, k) ==
    IF RankOf(list, key) = 0 THEN 0 ELSE ScoreScale \div (k + RankOf(list, key))

\* sorted(seq, key=score, reverse=True): stable, descending
RECURSIVE SortByScoreDesc(_)
SortByScoreDesc(seq) ==
    IF seq = <<>> THEN <<>>
    ELSE LET last  == seq[Len(seq)]
             front == SortByScoreDesc(SubSeq(seq, 1, Len(seq) - 1))
             keep  == { i \in 1..Len(front) : front[i].score >= last.score }
             n     == Cardinality(keep)
         IN  SubSeq(front, 1, n) \o <<last>> \o SubSeq(front, n + 1, Len(front))

\* the distinct keys of a list in order of first appearance
RECURSIVE FirstSeen(_, _)
FirstSeen(list, seen) ==
    IF list = <<>> THEN <<>>
    ELSE IF Head(list).text \in seen THEN FirstSeen(Tail(list), seen)
    ELSE <<Head(list)>> \o FirstSeen(Tail(list), seen \cup {Head(list).text})

\* HybridRetriever.reciprocal_rank_fusion(dense, sparse, k)
ReciprocalRankFusion(dense, sparse, k) ==
    LET cands == FirstSeen(dense \o sparse, {})
    IN  SortByScoreDesc([i \in 1..Len(cands) |->
            [cands[i] EXCEPT !.score = RRFTerm(dense, cands[i].text, k)
                                       + RRFTerm(sparse, cands[i].text, k)]])

RRF_K == 60

\* (the fused list returned whole)
HybridSearchUntruncated(b, name, top_k) ==
    LET dense == DenseSearch(b, name, top_k)
    IN  IF ~dense.ok THEN dense
        ELSE IF ~b.sparse_ok THEN Ok(dense.val)
        ELSE Ok(ReciprocalRankFusion(dense.val,
                    [i \in 1..Len(Slice(b.sparse, top_k)) |-> Fragment(b.sparse[i], name)],
                    RRF_K))

\* (fusion called with k = 0)
HybridSearchUnsmoothed(b, name, top_k) ==
    LET dense == DenseSearch(b, name, top_k)
    IN  IF ~dense.ok THEN dense
        ELSE IF ~b.sparse_ok THEN Ok(Slice(dense.val, top_k))
        ELSE LET sparse == [i \in 1..Len(Slice(b.sparse, top_k)) |-> Fragment(b.sparse[i], name)]
             IN  Ok(Slice(ReciprocalRankFusion(dense.val, sparse, 0), top_k))

\* SearchEngine.hybrid_search
HybridSearch(b, name, top_k) ==
    LET dense == DenseSearch(b, name, top_k)
    IN  IF ~dense.ok THEN dense
        ELSE IF ~b.sparse_ok THEN Ok(Slice(dense.val, top_k))
        ELSE LET sparse == [i \in 1..Len(Slice(b.sparse, top_k)) |-> Fragment(b.sparse[i], name)]
             IN  Ok(Slice(ReciprocalRankFusion(dense.val, sparse, RRF_K), top_k))

\* (fusion whatever the configuration says)
SearchCollectionAlwaysHybrid(eng, b, name, top_k) == HybridSearch(b, name, top_k)

\* SearchEngine.search_collection
SearchCollection(eng, b, name, top_k) ==
    IF eng.hybrid_disabled \/ ~eng.bm25_retriever
    THEN DenseSearch(b, name, top_k)
    ELSE HybridSearch(b, name, top_k)

\* the external services one search_collection call queries, in order: the
\* vector store after an embedding was returned, the sparse index in hybrid
\* mode after dense_search has returned
ExternalCalls(eng, b) ==
    <<"embedding">>
    \o (IF b.embed_ok THEN <<"vector_store">> ELSE <<>>)
    \o (IF ~(eng.hybrid_disabled \/ ~eng.bm25_retriever) /\ (~b.embed_ok \/ b.vector_ok)
        THEN <<"sparse_index">> ELSE <<>>)

(***************************************************************************)
(* search_multiple_collections: the merge after the per-collection loop.   *)
(* `seen` is the insertion-ordered dict of the code, kept as the sequence  *)
(* of its values.                                                          *)
(***************************************************************************)
SeenIndex(seen, key) ==
    LET at == { i \in 1..Len(seen) : Fingerprint(seen[i]) = key }
    IN  IF at = {} THEN 0 ELSE CHOOSE i \in at : TRUE

\* if key not in seen or r.score > seen[key].score: seen[key] = r
SeenPut(seen, r) ==
    LET i == SeenIndex(seen, Fingerprint(r))
    IN  IF i = 0 THEN Append(seen, r)
        ELSE IF r.score > seen[i].score THEN [seen EXCEPT ![i] = r]
        ELSE seen

RECURSIVE Dedup(_, _)
Dedup(all_results, seen) ==
    IF all_results = <<>> THEN seen
    ELSE Dedup(Tail(all_results), SeenPut(seen, Head(all_results)))

\* SearchEngine.search_multiple_collections, after the loop
SE_Merge(all_results) == SortByScoreDesc(Dedup(all_results, <<>>))

\* UnifiedRAG.search_multiple_collections, after the loop
UR_Merge(all_results) == SortByScoreDesc(all_results)

Merge(impl, all_results) ==
    IF impl = "SearchEngine" THEN SE_Merge(all_results) ELSE UR_Merge(all_results)

(***************************************************************************)
(* SpecSearch: search_multiple_collections, one loop iteration a step.     *)
(***************************************************************************)
MaxHits == 2
SparseScore == ScoreScale

VectorHits == { Hit(t, s, "") : t \in Texts, s \in Scores }
SparseHits == { Hit(t, SparseScore, "") : t \in Texts }

ListsUpTo(S, n) == UNION { [1..k -> S] : k \in 0..n }
Ranked(list) == \A i \in 1..Len(list) - 1 : list[i].score >= list[i + 1].score

RankedLists(S, n) == { l \in ListsUpTo(S, n) : Ranked(l) }

\* what the vector path of one collection can answer, with at most n hits
VectorOutcomes(n) ==
    { [embed_ok |-> FALSE, vector_ok |-> TRUE, vector |-> <<>>],
      [embed_ok |-> TRUE, vector_ok |-> FALSE, vector |-> <<>>] }
    \cup { [embed_ok |-> TRUE, vector_ok |-> TRUE, vector |-> v] : v \in RankedLists(VectorHits, n) }

\* what the sparse index of one collection can answer, with at most n hits
SparseOutcomes(n) ==
    { [sparse_ok |-> FALSE, sparse |-> <<>>] }
    \cup { [sparse_ok |-> TRUE, sparse |-> sp] : sp \in ListsUpTo(SparseHits, n) }

Backend(vo, so) ==
    [embed_ok |-> vo.embed_ok, vector_ok |-> vo.vector_ok, vector |-> vo.vector,
     sparse_ok |-> so.sparse_ok, sparse |-> so.sparse]

NameLists == { <<>>, <<"c1">>, <<"c2">>, <<"c1", "c2">>, <<"c2", "c1">> }

Engines == [hybrid_disabled : BOOLEAN, bm25_retriever : BOOLEAN, rag : RagConfigs]

\* `calls` lists the search_collection calls made: the collection, the top_k
\* passed, what the external services answer, which of them the call queried
\* and what it returned
SMIdle == [pc |-> "idle", impl |-> "SearchEngine", names |-> <<>>, alloc |-> None,
           i |-> 0, all_results |-> <<>>, out |-> <<>>, calls |-> <<>>]

\* the call: SearchEngine takes chunk_allocation from its caller, UnifiedRAG
\* computes it from its configuration
SMCall ==
    /\ sm.pc = "idle"
    /\ \E impl \in {"SearchEngine", "UnifiedRAG"}, names \in NameLists, given \in BOOLEAN :
          sm' = [SMIdle EXCEPT !.pc = "loop", !.impl = impl, !.names = names, !.i = 1,
                    !.alloc = IF impl = "UnifiedRAG" \/ given
                              THEN Some(ChunkAllocation(engine.rag, names)) ELSE None]
    /\ UNCHANGED <<engine, routerVars, answerVars, unifiedVars, di, ing, gd>>

\* one iteration: all_results.extend(self.search_collection(...))
SMIterate ==
    /\ sm.pc = "loop"
    /\ sm.i <= Len(sm.names)
    /\ \E vo \in VectorOutcomes(MaxHits - Len(sm.all_results)) :
       \E so \in SparseOutcomes(IF engine.hybrid_disabled \/ ~engine.bm25_retriever THEN 0
                                 ELSE MaxHits - Len(sm.all_results) - Len(vo.vector)) :
          LET name == sm.names[sm.i]
              r    == SearchCollection(engine, Backend(vo, so), name, AllocatedTopK(sm.alloc, name))
              call == [name |-> name, top_k |-> AllocatedTopK(sm.alloc, name),
                       backend |-> Backend(vo, so),
                       queried |-> ExternalCalls(engine, Backend(vo, so)), result |-> r]
          IN  sm' = IF r.ok
                    THEN [sm EXCEPT !.i = @ + 1, !.all_results = @ \o r.val,
                                    !.calls = Append(@, call)]
                    ELSE [sm EXCEPT !.pc = "raised", !.calls = Append(@, call)]
    /\ UNCHANGED <<engine, routerVars, answerVars, unifiedVars, di, ing, gd>>

\* after the loop: merge and return
SMFinish ==
    /\ sm.pc = "loop"
    /\ sm.i > Len(sm.names)
    /\ sm' = [sm EXCEPT !.pc = "done", !.out = Merge(sm.impl, sm.all_results)]
    /\ UNCHANGED <<engine, routerVars, answerVars, unifiedVars, di, ing, gd>>

SMReturn ==
    /\ sm.pc \in {"done", "raised"}
    /\ sm' = SMIdle
    /\ UNCHANGED <<engine, routerVars, answerVars, unifiedVars, di, ing, gd>>

(***************************************************************************)
(* QueryRouter (query_router.py)                                           *)
(*                                                                         *)
(* JSON values are tagged: JInt(n), JStr(s), JList(<<names>>), JNull, and  *)
(* JAbsent for a key the object does not hold.                             *)
(***************************************************************************)
JInt(n)  == [t |-> "int", n |-> n]
JStr(x)  == [t |-> "str", s |-> x]
JList(l) == [t |-> "list", l |-> l]
JNull    == [t |-> "null"]
JAbsent  == [t |-> "absent"]

(***************************************************************************)
(* The router model's reply is text.  It is kept as a sequence of lexemes: *)
(*   lb, rb    the characters { and }                                      *)
(*   ws        a run of whitespace                                         *)
(*   junk      a run of other characters that is no JSON                   *)
(*   members   the well-formed member list of an object, without braces    *)
(*   value     a well-formed JSON value that is no object, e.g. [1, 2]     *)
(***************************************************************************)
LB   == [k |-> "lb"]
RB   == [k |-> "rb"]
WS   == [k |-> "ws"]
JUNK == [k |-> "junk"]
Members(c, ta, r) == [k |-> "members", collections |-> c, token_allocation |-> ta, reasoning |-> r]
Value(v) == [k |-> "value", v |-> v]

IsBrace(x) == x.k \in {"lb", "rb"}

RECURSIVE DropWs(_)
DropWs(text) ==
    IF text = <<>> THEN <<>>
    ELSE IF Head(text).k = "ws" THEN DropWs(Tail(text))
    ELSE <<Head(text)>> \o DropWs(Tail(text))

\* response.strip() is empty
IsBlank(text) == DropWs(text) = <<>>

\* ' '.join(response.split()): no whitespace at the ends, runs of it collapsed
RECURSIVE CollapseWs(_, _)
CollapseWs(text, prevWs) ==
    IF text = <<>> THEN <<>>
    ELSE IF Head(text).k = "ws"
         THEN IF prevWs \/ DropWs(Tail(text)) = <<>> THEN CollapseWs(Tail(text), TRUE)
              ELSE <<WS>> \o CollapseWs(Tail(text), TRUE)
    ELSE <<Head(text)>> \o CollapseWs(Tail(text), FALSE)

\* json.loads: whitespace between tokens is skipped
JsonLoads(text) ==
    LET toks == DropWs(text)
    IN  IF Len(toks) = 2 /\ toks[1].k = "lb" /\ toks[2].k = "rb"
            THEN Ok([t |-> "dict", collections |-> JAbsent, token_allocation |-> JAbsent,
                     reasoning |-> JAbsent])
        ELSE IF Len(toks) = 3 /\ toks[1].k = "lb" /\ toks[2].k = "members" /\ toks[3].k = "rb"
            THEN Ok([t |-> "dict", collections |-> toks[2].collections,
                     token_allocation |-> toks[2].token_allocation,
                     reasoning |-> toks[2].reasoning])
        ELSE IF Len(toks) = 1 /\ toks[1].k = "value"
            THEN Ok(toks[1].v)
        ELSE Raise("JSONDecodeError")

\* position of the first brace after position j, 0 when there is none
NextBrace(text, j) ==
    LET at == { i \in (j + 1)..Len(text) : IsBrace(text[i]) }
    IN  IF at = {} THEN 0 ELSE CHOOSE i \in at : \A x \in at : i <= x

\* where a match of  [^{}]*(?:\{[^{}]*\}[^{}]*)*\}  starting after position j ends
RECURSIVE MatchEnd(_, _)
MatchEnd(text, j) ==
    LET b == NextBrace(text, j)
    IN  IF b = 0 THEN 0
        ELSE IF text[b].k = "rb" THEN b
        ELSE LET c == NextBrace(text, b)
             IN  IF c = 0 \/ text[c].k = "lb" THEN 0 ELSE MatchEnd(text, c)

\* re.search(r'\{[^{}]*(?:\{[^{}]*\}[^{}]*)*\}', text): the leftmost match, None
RegexSearch(text) ==
    LET starts == { i \in 1..Len(text) : text[i].k = "lb" /\ MatchEnd(text, i) # 0 }
    IN  IF starts = {} THEN None
        ELSE LET i == CHOOSE x \in starts : \A y \in starts : x <= y
             IN  Some(SubSeq(text, i, MatchEnd(text, i)))

(***************************************************************************)
(* Queries.  A query is a sequence of text atoms; lower() maps each atom   *)
(* to its lower-case form and `keyword in query_lower` is containment as a *)
(* contiguous run.                                                         *)
(***************************************************************************)
LowerAtom(a) ==
    CASE a = "Plan" -> "plan"
      [] a = "Fee"  -> "fee"
      [] OTHER      -> a

Lower(q) == [i \in 1..Len(q) |-> LowerAtom(q[i])]

\* sub in text
Contains(text, sub) ==
    \E i \in 1..(Len(text) - Len(sub) + 1) : SubSeq(text, i, i + Len(sub) - 1) = sub

Queries ==
    { <<"x">>, <<"fee">>, <<"Fee", " ", "menu">>, <<"fee", " ", "menu", " ", "hours">>,
      <<"Plan">>, <<"x", "plan", "et">>, <<"sched", "ule">>, <<"sched", " ", "ule">>,
      <<"fee", " ", "menu", " ", "hours", " ", "plan">> }

(***************************************************************************)
(* Router configuration: config['query_router'] and config['llm'].         *)
(***************************************************************************)
DefaultMinTokens == 150
DefaultMaxTokens == 1250
DefaultLLMMaxTokens == 15000

RouterDescriptions == <<"c1", "c2", "c3">>

RouterKeywords ==
    [c \in {"c1", "c2", "c3"} |->
        CASE c = "c1" -> { <<"fee">> }
          [] c = "c2" -> { <<"menu">> }
          [] c = "c3" -> { <<"hours">>, <<"sched", "ule">> }]

RouterConfigs ==
    { [collection_descriptions |-> RouterDescriptions,
       collection_keywords |-> RouterKeywords,
       default_collections |-> d, min_tokens |-> b[1], max_tokens |-> b[2],
       llm_max_tokens |-> m] :
         d \in { None, Some(<<"c1">>), Some(<<>>) },
         b \in { <<None, None>>, <<Some(200), Some(800)>> },
         m \in { None, Some(600) } }

LLMMaxTokens(cfg) == CfgGet(cfg.llm_max_tokens, DefaultLLMMaxTokens)
MinTokens(cfg) == CfgGet(cfg.min_tokens, DefaultMinTokens)
MaxTokens(cfg) == CfgGet(cfg.max_tokens, DefaultMaxTokens)

RoutingDecision(c, ta, r) == [collections |-> c, token_allocation |-> ta, reasoning |-> r]

\* list(set(collections)): the elements once each, in an order Python does not fix
ListOfSet(S) ==
    { l \in [1..Cardinality(S) -> S] : \A i, j \in 1..Cardinality(S) : l[i] = l[j] => i = j }

\* router_config.get('default_collections', ...) of route_simple
DefaultCollectionsSimple(cfg) ==
    CfgGet(cfg.default_collections, Slice(cfg.collection_descriptions, 1))

\* router_config.get('default_collections', ...) of route_with_llm_analysis
DefaultCollectionsLLM(cfg) ==
    CfgGet(cfg.default_collections, cfg.collection_descriptions)

\* int(base_tokens * 1.3), int(base_tokens * 1.6)
Times13(base) == (base * 13) \div 10
Times16(base) == (base * 16) \div 10

\* QueryRouter.route_simple: the decisions it can return
RouteSimple(cfg, query) ==
    LET query_lower == Lower(query)
        matched == { c \in DOMAIN cfg.collection_keywords :
                       \E kw \in cfg.collection_keywords[c] : Contains(query_lower, kw) }
        count   == IF matched = {} THEN Len(DefaultCollectionsSimple(cfg))
                   ELSE Cardinality(matched)
        names   == IF matched = {} THEN SeqToSet(DefaultCollectionsSimple(cfg)) ELSE matched
        base    == LLMMaxTokens(cfg)
        tokens  == IF count > 2 THEN Times13(base)
                   ELSE IF Contains(query_lower, <<"plan">>)
                           \/ Contains(query_lower, <<"sched", "ule">>) THEN Times16(base)
                   ELSE base
    IN  { Ok(RoutingDecision(l, tokens, JStr("Keyword-based routing"))) : l \in ListOfSet(names) }

\* the return of every fallback path of route_with_llm_analysis
Fallback(cfg, reason) ==
    RoutingDecision(DefaultCollectionsLLM(cfg), LLMMaxTokens(cfg), JStr(reason))

\* (the filter left out)
ValidCollectionsUnfiltered(names, descriptions) == names

\* [c for c in collections if c in collection_descriptions]
RECURSIVE ValidCollections(_, _)
ValidCollections(names, descriptions) ==
    IF names = <<>> THEN <<>>
    ELSE IF Head(names) \in SeqToSet(descriptions)
         THEN <<Head(names)>> \o ValidCollections(Tail(names), descriptions)
    ELSE ValidCollections(Tail(names), descriptions)

\* (the lower bound left out)
ClampTokensUpperOnly(cfg, v) == Min(v, MaxTokens(cfg))

\* max(min_tokens, min(token_allocation, max_tokens))
ClampTokens(cfg, v) == Max(MinTokens(cfg), Min(v, MaxTokens(cfg)))

\* lines 171-185: the decision built from the parsed reply; a reply that is no
\* object, a token_allocation that is no number and a collections value that
\* cannot be iterated raise inside the try and end in the `except Exception` arm
DecisionFromResult(cfg, result) ==
    IF result.t # "dict" THEN Fallback(cfg, "Error")
    ELSE LET collections == IF result.collections.t = "absent"
                            THEN JList(DefaultCollectionsLLM(cfg)) ELSE result.collections
             token_allocation == IF result.token_allocation.t = "absent"
                                 THEN JInt(LLMMaxTokens(cfg)) ELSE result.token_allocation
             reasoning == IF result.reasoning.t = "absent"
                          THEN JStr("LLM analysis") ELSE result.reasoning
         IN  IF token_allocation.t # "int" THEN Fallback(cfg, "Error")
             ELSE IF collections.t \notin {"list", "str"} THEN Fallback(cfg, "Error")
             ELSE LET valid == IF collections.t = "list"
                               THEN ValidCollections(collections.l, cfg.collection_descriptions)
                               ELSE <<>>
                  IN  RoutingDecision(IF valid = <<>> THEN DefaultCollectionsLLM(cfg) ELSE valid,
                                      ClampTokens(cfg, token_allocation.n), reasoning)

\* (a reply with no parseable JSON taken as the empty object)
ParseReplyLenient(cfg, text) ==
    IF IsBlank(text) THEN [parsed |-> FALSE, decision |-> Fallback(cfg, "Empty response from router LLM")]
    ELSE LET cleaned_response == CollapseWs(text, TRUE)
             direct == JsonLoads(cleaned_response)
             json_match == RegexSearch(cleaned_response)
         IN  IF direct.ok THEN [parsed |-> TRUE, result |-> direct.val]
             ELSE IF json_match # None /\ JsonLoads(json_match[1]).ok
                  THEN [parsed |-> TRUE, result |-> JsonLoads(json_match[1]).val]
             ELSE [parsed |-> TRUE, result |-> JsonLoads(<<LB, RB>>).val]

\* lines 143-170: from the reply text to the parsed JSON value, or the fallback
ParseReply(cfg, text) ==
    IF IsBlank(text) THEN [parsed |-> FALSE, decision |-> Fallback(cfg, "Empty response from router LLM")]
    ELSE LET cleaned_response == CollapseWs(text, TRUE)
             direct == JsonLoads(cleaned_response)
             json_match == RegexSearch(cleaned_response)
         IN  IF direct.ok THEN [parsed |-> TRUE, result |-> direct.val]
             ELSE IF json_match = None
                  THEN [parsed |-> FALSE,
                        decision |-> Fallback(cfg, "No valid JSON found in response")]
             ELSE IF JsonLoads(json_match[1]).ok
                  THEN [parsed |-> TRUE, result |-> JsonLoads(json_match[1]).val]
             ELSE [parsed |-> FALSE, decision |-> Fallback(cfg, "Failed to parse router response")]

\* QueryRouter.route_with_llm_analysis.  `chat` is what ollama_api.chat does:
\* it raises, or returns the reply text (empty for None or '').
RouteWithLLMAnalysis(cfg, ollama_api, chat) ==
    IF ~ollama_api THEN Raise("UnboundLocalError")
    ELSE IF chat.raises THEN Ok(Fallback(cfg, "Error"))
    ELSE LET p == ParseReply(cfg, chat.text)
         IN  IF p.parsed THEN Ok(DecisionFromResult(cfg, p.result)) ELSE Ok(p.decision)

\* QueryRouter.route_query: the outcomes it can have
RouteQuery(cfg, ollama_api, query, method, chat) ==
    IF ~ollama_api \/ method = "simple" THEN RouteSimple(cfg, query)
    ELSE { RouteWithLLMAnalysis(cfg, ollama_api, chat) }

(***************************************************************************)
(* SpecRouter: the entry points of QueryRouter, each call a step.          *)
(***************************************************************************)
CollectionsValues ==
    { JAbsent, JList(<<"c1">>), JList(<<"c2", "zz">>), JList(<<"zz">>), JList(<<>>),
      JStr("c1"), JInt(7), JNull }

TokenValues ==
    { JAbsent, JInt(50), JInt(150), JInt(500), JInt(1250), JInt(5000), JStr("many"), JNull }

MembersPlain == { Members(c, ta, JAbsent) : c \in CollectionsValues, ta \in TokenValues }

MembersWrapped ==
    { Members(c, ta, JStr("because")) :
        c \in { JList(<<"c1">>), JList(<<"zz">>) }, ta \in { JInt(50), JInt(5000), JStr("many") } }

ReplyTexts ==
    { <<LB, m, RB>> : m \in MembersPlain \cup MembersWrapped }
    \cup { <<WS, LB, WS, m, WS, RB, WS>> : m \in MembersWrapped }
    \cup { <<JUNK, WS, LB, m, RB, WS, JUNK>> : m \in MembersWrapped }
    \cup { <<LB, JUNK, LB, m, RB>> : m \in MembersWrapped }
    \cup { <<>>, <<WS>>, <<LB, RB>>, <<JUNK>>, <<JUNK, WS, JUNK>>, <<JUNK, LB, JUNK, RB>>,
            <<LB, Members(JAbsent, JInt(500), JAbsent)>>,
            <<JUNK, LB, Members(JAbsent, JInt(500), JAbsent), LB, RB, RB>>,
            <<Value(JList(<<"c1">>))>>, <<Value(JInt(5))>>, <<WS, Value(JNull), WS>> }

ChatOutcomes ==
    { [raises |-> TRUE, text |-> <<>>] } \cup { [raises |-> FALSE, text |-> t] : t \in ReplyTexts }

RQIdle == [pc |-> "idle", entry |-> "", query |-> <<>>, chat |-> None, result |-> None]

\* the activation after the call has returned `r` or raised
RQEnd(entry, query, chat, r) ==
    [pc |-> IF r.ok THEN "returned" ELSE "raised", entry |-> entry, query |-> query,
     chat |-> chat, result |-> IF r.ok THEN Some(r.val) ELSE None]

\* route_query(query, method=...)
CallRouteQuery ==
    /\ rq.pc = "idle"
    /\ \E query \in Queries, method \in {"llm", "simple"}, chat \in ChatOutcomes :
       \E r \in RouteQuery(router.config, router.ollama_api, query, method, chat) :
          rq' = RQEnd("route_query", query,
                      IF ~router.ollama_api \/ method = "simple" THEN None ELSE Some(chat), r)
    /\ UNCHANGED <<router, searchVars, answerVars, unifiedVars, di, ing, gd>>

\* route_simple(query)
CallRouteSimple ==
    /\ rq.pc = "idle"
    /\ \E query \in Queries : \E r \in RouteSimple(router.config, query) :
          rq' = RQEnd("route_simple", query, None, r)
    /\ UNCHANGED <<router, searchVars, answerVars, unifiedVars, di, ing, gd>>

\* route_with_llm_analysis(query)
CallRouteWithLLMAnalysis ==
    /\ rq.pc = "idle"
    /\ \E query \in Queries, chat \in ChatOutcomes :
          rq' = RQEnd("route_with_llm_analysis", query,
                      IF router.ollama_api THEN Some(chat) ELSE None,
                      RouteWithLLMAnalysis(router.config, router.ollama_api, chat))
    /\ UNCHANGED <<router, searchVars, answerVars, unifiedVars, di, ing, gd>>

RouterReturn ==
    /\ rq.pc \in {"returned", "raised"}
    /\ rq' = RQIdle
    /\ UNCHANGED <<router, searchVars, answerVars, unifiedVars, di, ing, gd>>

(***************************************************************************)
(* The document store and SummaryRetriever (summary_retriever.py).         *)
(* A parent document is known by its identifier; DocText and DocCollection *)
(* are the text and collection_name stored with it.                        *)
(***************************************************************************)
DocIds == {"d1", "d2"}

DocText(d) == << <<d, 1>> >>
DocCollection(d) == IF d = "d1" THEN "c1" ELSE "c2"

\* what the document store answers to one batch_get: it fails, or holds `docs`
Stores ==
    { [ok |-> FALSE, docs |-> {}] } \cup { [ok |-> TRUE, docs |-> D] : D \in SUBSET DocIds }

\* QdrantDocStore.batch_get: the identifiers of the documents it returns
BatchGet(store, doc_ids) ==
    IF doc_ids = <<>> \/ ~store.ok THEN {} ELSE store.docs \cap SeqToSet(doc_ids)

SummaryHit(d, s) == [doc_id |-> d, score |-> s]

\* search_summaries, the loop over the collections: a failing query is skipped
RECURSIVE SummaryResults(_, _, _)
SummaryResults(sb, names, top_n) ==
    IF names = <<>> THEN <<>>
    ELSE LET c    == sb.coll[Head(names)]
             hits == IF ~c.ok THEN <<>>
                     ELSE [i \in 1..Len(Slice(c.hits, top_n)) |->
                             [doc_id |-> c.hits[i].doc_id, collection_name |-> Head(names),
                              score |-> c.hits[i].score]]
         IN  hits \o SummaryResults(sb, Tail(names), top_n)

\* SummaryRetriever.search_summaries
SearchSummaries(sb, names, top_n) ==
    IF ~sb.embed_ok THEN <<>>
    ELSE Slice(SortByScoreDesc(SummaryResults(sb, names, top_n)), top_n)

\* list(dict.fromkeys(r['doc_id'] for r in summary_results if r.get('doc_id')))
RECURSIVE DistinctDocIds(_, _)
DistinctDocIds(summary_results, acc) ==
    IF summary_results = <<>> THEN acc
    ELSE LET d == Head(summary_results).doc_id
         IN  DistinctDocIds(Tail(summary_results),
                            IF d = "" \/ d \in SeqToSet(acc) THEN acc ELSE Append(acc, d))

\* get_documents_by_summaries, the loop over summary_results
RECURSIVE ResolvedDocuments(_, _)
ResolvedDocuments(summary_results, documents) ==
    IF summary_results = <<>> THEN <<>>
    ELSE LET s    == Head(summary_results)
             rest == ResolvedDocuments(Tail(summary_results), documents)
         IN  IF s.doc_id # "" /\ s.doc_id \in documents
             THEN << [doc_id |-> s.doc_id, text |-> DocText(s.doc_id),
                      collection_name |-> s.collection_name, score |-> s.score] >> \o rest
             ELSE rest

\* SummaryRetriever.get_documents_by_summaries
GetDocumentsBySummaries(sb, store, names, top_n) ==
    LET summary_results == SearchSummaries(sb, names, top_n)
    IN  IF summary_results = <<>> THEN <<>>
        ELSE ResolvedDocuments(summary_results,
                               BatchGet(store, DistinctDocIds(summary_results, <<>>)))

(***************************************************************************)
(* context_formatter.py                                                    *)
(***************************************************************************)
\* chunks_to_context_docs
ChunksToContextDocs(docs) ==
    [i \in 1..Len(docs) |->
        [text |-> docs[i].text, score |-> docs[i].score, doc_id |-> docs[i].doc_id,
         collection |-> docs[i].collection_name]]

\* parent_docs_to_context: score 1.0
RECURSIVE ParentDocsToContext(_, _)
ParentDocsToContext(documents, doc_ids) ==
    IF doc_ids = <<>> THEN <<>>
    ELSE LET d    == Head(doc_ids)
             rest == ParentDocsToContext(documents, Tail(doc_ids))
         IN  IF d \in documents
             THEN << [text |-> DocText(d), score |-> ScoreScale, doc_id |-> d,
                      collection |-> DocCollection(d)] >> \o rest
             ELSE rest

\* format_context: the parts that are joined, each a "[Collection: c] " prefix
\* and the text
FormatContext(chunks) ==
    [i \in 1..Len(chunks) |-> [collection |-> chunks[i].collection, text |-> chunks[i].text]]

\* build_prompt: one of three templates around the context and the query
BuildPrompt(context, query, thinking, show_thinking) ==
    [template |-> IF thinking /\ show_thinking THEN "thinking_shown"
                  ELSE IF thinking THEN "thinking" ELSE "plain",
     context |-> context, query |-> query]

(***************************************************************************)
(* LLMHandler (llm_handler.py).  `llm` is what ollama_api.chat does.       *)
(***************************************************************************)
NoResponseMessage == "I couldn't generate a response."
ErrorPrefix == "Error: "

Message(text) == [kind |-> "message", text |-> text]

\* the model's reply to the messages built from `prompt`, generated with
\* num_predict = tokens
Reply(prompt, tokens) == [kind |-> "reply", prompt |-> prompt, tokens |-> tokens]

LLMOutcomes == {"reply", "blank", "empty", "raise"}

\* LLMHandler.get_response
GetResponse(prompt, tokens, llm) ==
    CASE llm = "reply" -> Reply(prompt, tokens)
      [] llm = "blank" -> Message("")
      [] llm = "empty" -> Message(NoResponseMessage)
      [] OTHER         -> Message(ErrorPrefix)

StreamOutcomes == {"reply", "empty", "raise", "cut"}

\* LLMHandler.get_response_stream, iterated to its end: the fragments yielded
GetResponseStream(prompt, tokens, llm) ==
    CASE llm = "reply" -> << Reply(prompt, tokens) >>
      [] llm = "empty" -> <<>>
      [] llm = "raise" -> << Message(ErrorPrefix) >>
      [] OTHER         -> << Reply(prompt, tokens), Message(ErrorPrefix) >>

(***************************************************************************)
(* BGEReranker.rerank(query, results, top_k): the candidates in the order  *)
(* of the cross-encoder's relevance, their score replaced by it, at most   *)
(* top_k of them.  `order` is the order the cross-encoder finds.           *)
(***************************************************************************)
Rerank(results, top_k, order) ==
    LET n == Len(results)
    IN  Slice([i \in 1..n |->
                 [results[IF order = "reverse" THEN n + 1 - i ELSE i]
                     EXCEPT !.score = (n + 1 - i) * (ScoreScale \div 64)]], top_k)

(***************************************************************************)
(* AnswerGenerator (answer.py)                                             *)
(***************************************************************************)
DefaultTopK == 20
DefaultSummaryTopN == 5
NoResultsMessage == "I couldn't find relevant information to answer your question."

\* list(self.collections.keys())
CollectionKeys == <<"c1", "c2">>

AGConfig ==
    [rag |-> [base_chunks_per_collection |-> Some(1), priority_boost |-> Some(1),
              collection_priority |-> Some(<<"c1">>)],
     top_k |-> None, llm_max_tokens |-> None]

\* the trace as line 29-30 builds it; prompt_length and answer_length hold
\* whether the key is set
Debug0 ==
    [query |-> <<>>, collections_searched |-> <<>>, total_results |-> 0,
     reranking_enabled |-> FALSE, thinking_enabled |-> TRUE, top_k_used |-> None,
     summary_gating_used |-> FALSE, parent_docs_used |-> FALSE,
     routing_used |-> None, token_allocation |-> None, chunks_used |-> None,
     prompt_length |-> FALSE, answer_length |-> FALSE, error |-> None]

\* calls made to collaborators during one answer_question
NoCalls == [router |-> 0, gate |-> 0, search |-> 0, get_reranker |-> 0, rerank |-> 0,
            docstore |-> 0, llm |-> 0]

\* One activation of answer_question.
\*   gate     "skipped", "miss" or "hit": what the summary gate did
\*   rerank   "", "off", "unavailable", "keep" or "reverse": what _apply_reranking met
\*   parent   None, or the identifiers asked of the document store and the
\*            documents it returned
AQIdle ==
    [pc |-> "idle", query |-> <<>>, collections |-> <<>>, tokens |-> 0, top_k |-> 0,
     gate |-> "skipped", docs |-> <<>>, i |-> 0, searched |-> <<>>, all_results |-> <<>>,
     results |-> <<>>, rerank |-> "", parent |-> None, chunks |-> <<>>, context |-> <<>>,
     ret |-> None, exc |-> "", debug |-> Debug0, calls |-> NoCalls]

Raised(a, exc) == [a EXCEPT !.pc = "raised", !.exc = exc]

\* _route_query: the router is consulted
UsesRouter(g, selected) == g.query_router /\ (selected = None \/ selected[1] = <<>>)

\* _route_query, the router's decision taken over
RouteRouted(r) ==
    [collections |-> r.collections, tokens |-> r.token_allocation, routing_used |-> TRUE]

\* _route_query without the router
RouteSelected(g, selected) ==
    [collections |-> IF selected = None \/ selected[1] = <<>> THEN CollectionKeys
                     ELSE selected[1],
     tokens |-> CfgGet(g.config.llm_max_tokens, DefaultLLMMaxTokens),
     routing_used |-> FALSE]

\* answer_question up to line 39
AfterRoute(g, query, route, top_k) ==
    LET k == CfgGet(top_k, CfgGet(g.config.top_k, DefaultTopK))
    IN  [AQIdle EXCEPT !.query = query, !.collections = route.collections,
                       !.tokens = route.tokens, !.top_k = k,
                       !.debug = [Debug0 EXCEPT !.query = query,
                                     !.collections_searched = route.collections,
                                     !.routing_used = Some(route.routing_used),
                                     !.token_allocation = Some(route.tokens),
                                     !.top_k_used = Some(k)],
                       !.calls = [NoCalls EXCEPT !.router = IF route.routing_used THEN 1 ELSE 0]]

\* _standard_answer is entered: search_multiple_collections is called
StandardAnswer(a) == [a EXCEPT !.pc = "search", !.i = 1, !.calls.search = @ + 1]

\* answer_question, line 41
Dispatch(g, a, use_summary_gating) ==
    IF CfgGet(use_summary_gating, g.enable_summary_gating) /\ g.summary_retriever
    THEN [a EXCEPT !.pc = "gate"]
    ELSE StandardAnswer(a)

\* _generate
Generate(a, stream, llm) ==
    LET prompt == BuildPrompt(a.context, a.query, TRUE, FALSE)
    IN  IF stream
        THEN [a EXCEPT !.pc = "done",
                       !.ret = Some([stream |-> TRUE, gen |-> "llm", llm |-> "",
                                     consumed |-> FALSE, out |-> <<>>, chunks |-> a.chunks])]
        ELSE [a EXCEPT !.pc = "done", !.calls.llm = @ + 1, !.debug.answer_length = TRUE,
                       !.ret = Some([stream |-> FALSE, gen |-> "", llm |-> llm,
                                     consumed |-> TRUE,
                                     out |-> << GetResponse(prompt, a.tokens, llm) >>,
                                     chunks |-> a.chunks])]

\* (no-results answered by the language model)
NoResultsGenerated(a, stream) == Generate([a EXCEPT !.debug.error = Some("no_results")], stream, "reply")

\* _no_results
NoResults(a, stream) ==
    [a EXCEPT !.pc = "done", !.debug.error = Some("no_results"),
              !.ret = Some([stream |-> stream, gen |-> IF stream THEN "err" ELSE "",
                            llm |-> "", consumed |-> ~stream,
                            out |-> IF stream THEN <<>> ELSE << Message(NoResultsMessage) >>,
                            chunks |-> <<>>])]

\* (a gate that found documents still runs the standard search)
GateHitThenSearch(a, docs) == StandardAnswer([a EXCEPT !.gate = "hit", !.docs = docs])

\* _summary_gated_answer with documents: the context is built from them
GateHit(a, docs) ==
    LET ctx_docs == ChunksToContextDocs(docs)
    IN  [a EXCEPT !.pc = "generate", !.gate = "hit", !.docs = docs, !.chunks = ctx_docs,
                  !.context = FormatContext(ctx_docs),
                  !.debug.total_results = Len(ctx_docs),
                  !.debug.parent_docs_used = TRUE,
                  !.debug.prompt_length = TRUE]

\* (a gate without documents ends the query)
GateMissEnds(a) == NoResults([a EXCEPT !.gate = "miss"], FALSE)

\* _summary_gated_answer returns None: answer_question goes on to line 47
GateMiss(a) == StandardAnswer([a EXCEPT !.gate = "miss"])

\* _summary_gated_answer
SummaryGatedAnswer(a, docs) ==
    LET a1 == [a EXCEPT !.debug.summary_gating_used = TRUE, !.calls.gate = @ + 1]
    IN  IF docs = <<>> THEN GateMiss(a1) ELSE GateHit(a1, docs)

\* _standard_answer, lines 78-80, after search_multiple_collections returned
SearchFinished(a, stream) ==
    LET results == SE_Merge(a.all_results)
        a1      == [a EXCEPT !.results = results, !.debug.total_results = Len(results)]
    IN  IF results = <<>> THEN NoResults(a1, stream) ELSE [a1 EXCEPT !.pc = "rerank"]

\* _standard_answer, line 83
Reranked(a, chunks) ==
    [a EXCEPT !.pc = "context", !.chunks = chunks, !.debug.chunks_used = Some(Len(chunks))]

\* (without a reranker the merged list is passed on whole)
ApplyRerankingUntruncated(g, a, enable, available, order) ==
    LET on == CfgGet(enable, ~g.rerank_disabled)
    IN  IF on /\ available
        THEN Reranked([a EXCEPT !.debug.reranking_enabled = TRUE, !.calls.get_reranker = @ + 1,
                                !.calls.rerank = @ + 1, !.rerank = order],
                      Rerank(a.results, a.top_k, IF order = "raise" THEN "keep" ELSE order))
        ELSE Reranked([a EXCEPT !.rerank = IF on THEN "unavailable" ELSE "off"], a.results)

\* _apply_reranking.  `available`: get_reranker() returns a reranker;
\* `order`: what reranker.rerank does
ApplyReranking(g, a, enable, available, order) ==
    LET on == CfgGet(enable, ~g.rerank_disabled)
        a1 == IF on THEN [a EXCEPT !.calls.get_reranker = @ + 1] ELSE a
    IN  IF on /\ available
        THEN LET a2 == [a1 EXCEPT !.debug.reranking_enabled = TRUE, !.calls.rerank = @ + 1,
                                  !.rerank = order]
             IN  IF order = "raise" THEN Raised(a2, "reranker")
                 ELSE Reranked(a2, Rerank(a.results, a.top_k, order))
        ELSE Reranked([a1 EXCEPT !.debug.reranking_enabled = FALSE,
                                 !.rerank = IF on THEN "unavailable" ELSE "off"],
                      Slice(a.results, a.top_k))

\* (every identifier met is asked for, up to the cap)
RECURSIVE ParentDocIdsRepeated(_, _, _)
ParentDocIdsRepeated(chunks, doc_ids, cap) ==
    IF chunks = <<>> \/ Len(doc_ids) >= cap THEN doc_ids
    ELSE ParentDocIdsRepeated(Tail(chunks),
                              IF Head(chunks).doc_id # "" THEN Append(doc_ids, Head(chunks).doc_id)
                              ELSE doc_ids, cap)

\* _get_context, the loop collecting doc_ids
RECURSIVE ParentDocIds(_, _, _)
ParentDocIds(chunks, doc_ids, cap) ==
    IF chunks = <<>> THEN doc_ids
    ELSE LET d == Head(chunks).doc_id
         IN  IF d # "" /\ d \notin SeqToSet(doc_ids)
             THEN IF Len(doc_ids) + 1 >= cap THEN Append(doc_ids, d)
                  ELSE ParentDocIds(Tail(chunks), Append(doc_ids, d), cap)
             ELSE ParentDocIds(Tail(chunks), doc_ids, cap)

\* _standard_answer, lines 85-86
WithContext(a, context) ==
    [a EXCEPT !.pc = "generate", !.context = context, !.debug.prompt_length = TRUE]

\* (the context is built from the documents resolved, however few)
GetContextWithoutFallback(g, a, use_parent_docs, store) ==
    LET doc_ids   == ParentDocIds(a.chunks, <<>>, g.summary_top_n)
        documents == BatchGet(store, doc_ids)
        a1        == [a EXCEPT !.debug.parent_docs_used = TRUE,
                               !.parent = Some([doc_ids |-> doc_ids, documents |-> documents]),
                               !.calls.docstore = IF doc_ids = <<>> THEN @ ELSE @ + 1]
    IN  IF ~CfgGet(use_parent_docs, g.return_parent_docs) \/ ~g.docstore
            THEN WithContext(a, FormatContext(a.chunks))
        ELSE WithContext(a1, FormatContext(ParentDocsToContext(documents, doc_ids)))

\* _get_context
GetContext(g, a, use_parent_docs, store) ==
    LET doc_ids   == ParentDocIds(a.chunks, <<>>, g.summary_top_n)
        documents == BatchGet(store, doc_ids)
        a1        == [a EXCEPT !.debug.parent_docs_used = TRUE,
                               !.parent = Some([doc_ids |-> doc_ids, documents |-> documents]),
                               !.calls.docstore = IF doc_ids = <<>> THEN @ ELSE @ + 1]
    IN  IF ~CfgGet(use_parent_docs, g.return_parent_docs) \/ ~g.docstore
            THEN WithContext(a, FormatContext(a.chunks))
        ELSE IF doc_ids = <<>> \/ documents = {}
            THEN WithContext(a1, FormatContext(a.chunks))
        ELSE WithContext(a1, FormatContext(ParentDocsToContext(documents, doc_ids)))

\* the caller iterates the returned generator to its end
Consume(a, llm) ==
    LET ret == a.ret[1]
    IN  IF ret.gen = "err"
        THEN [a EXCEPT !.ret = Some([ret EXCEPT !.consumed = TRUE,
                                                !.out = << Message(NoResultsMessage) >>])]
        ELSE [a EXCEPT !.calls.llm = @ + 1,
                       !.ret = Some([ret EXCEPT !.consumed = TRUE, !.llm = llm,
                                        !.out = GetResponseStream(
                                                    BuildPrompt(a.context, a.query, TRUE, FALSE),
                                                    a.tokens, llm)])]

(***************************************************************************)
(* Spec: answer_question, one stage a step.  The arguments of the call are *)
(* drawn where the code first reads them; enable_thinking and              *)
(* show_thinking keep their defaults.                                      *)
(***************************************************************************)
MaxSummaryHits == 2

AQQueries == { <<"fee", " ", "menu">> }

OptionalFlags == { None, Some(TRUE), Some(FALSE) }

AQChatOutcomes ==
    { [raises |-> TRUE, text |-> <<>>],
      [raises |-> FALSE, text |-> <<JUNK>>],
      [raises |-> FALSE, text |-> <<LB, Members(JList(<<"c2", "zz">>), JInt(500), JAbsent), RB>>],
      [raises |-> FALSE, text |-> <<LB, Members(JList(<<"c2", "c2">>), JInt(500), JAbsent), RB>>] }

AQVectorHits ==
    { Hit(TextA, MaxScore * (ScoreScale \div 64), "d1"),
      Hit(TextAB, ScoreScale \div 64, "d2"),
      Hit(TextShort, ScoreScale \div 64, "d2"),
      Hit(TextShort, MaxScore * (ScoreScale \div 64), "") }

AQVectorOutcomes(n) ==
    { [embed_ok |-> FALSE, vector_ok |-> TRUE, vector |-> <<>>],
      [embed_ok |-> TRUE, vector_ok |-> FALSE, vector |-> <<>>] }
    \cup { [embed_ok |-> TRUE, vector_ok |-> TRUE, vector |-> v] : v \in RankedLists(AQVectorHits, n) }

AQSparseOutcomes ==
    { [sparse_ok |-> FALSE, sparse |-> <<>>], [sparse_ok |-> TRUE, sparse |-> <<>>],
      [sparse_ok |-> TRUE, sparse |-> << Hit(TextShort, SparseScore, "d2") >>] }

SummaryHits ==
    { SummaryHit("d1", MaxScore * (ScoreScale \div 64)), SummaryHit("d2", ScoreScale \div 64),
      SummaryHit("", MaxScore * (ScoreScale \div 64)), SummaryHit("d1", ScoreScale \div 64) }

SummaryCollectionOutcomes ==
    { [ok |-> FALSE, hits |-> <<>>] }
    \cup { [ok |-> TRUE, hits |-> h] : h \in RankedLists(SummaryHits, MaxSummaryHits) }

SummaryBackends ==
    { [embed_ok |-> e, coll |-> f] :
        e \in BOOLEAN,
        f \in { f \in [Collections -> SummaryCollectionOutcomes] :
                  Len(f["c1"].hits) + Len(f["c2"].hits) <= MaxSummaryHits } }

AnswerGenerator(qr, sr, ds, sg, n, pd, rd) ==
    [config |-> AGConfig, query_router |-> qr, summary_retriever |-> sr, docstore |-> ds,
     enable_summary_gating |-> sg, summary_top_n |-> n, return_parent_docs |-> pd,
     rerank_disabled |-> rd]

\* the instances examined: none of the optional parts; all of them, with a cap
\* of one document; all of them with every default off and reranking
\* disabled; the defaults on without the parts; all but the router
AnswerGenerators ==
    { AnswerGenerator(FALSE, FALSE, FALSE, FALSE, DefaultSummaryTopN, FALSE, FALSE),
      AnswerGenerator(TRUE, TRUE, TRUE, TRUE, 1, TRUE, FALSE),
      AnswerGenerator(TRUE, TRUE, TRUE, FALSE, DefaultSummaryTopN, FALSE, TRUE),
      AnswerGenerator(FALSE, FALSE, FALSE, TRUE, DefaultSummaryTopN, TRUE, TRUE),
      AnswerGenerator(FALSE, TRUE, TRUE, TRUE, DefaultSummaryTopN, TRUE, FALSE) }

\* selected_collections, top_k and use_summary_gating of the calls examined
AQArguments == { None, Some(<<>>), Some(<<"c1">>) } \X { None, Some(1) } \X OptionalFlags

\* answer_question, lines 29-45 without the gate itself
AQCall ==
    /\ aq.pc = "idle"
    /\ \E query \in AQQueries, args \in AQArguments :
          LET selected == args[1]
              top_k == args[2]
              use_summary_gating == args[3]
          IN
          IF UsesRouter(ag, selected)
          THEN \E chat \in AQChatOutcomes :
               \E r \in RouteQuery(router.config, router.ollama_api, query, "llm", chat) :
                  aq' = IF r.ok
                        THEN Dispatch(ag, AfterRoute(ag, query, RouteRouted(r.val), top_k),
                                      use_summary_gating)
                        ELSE Raised([AQIdle EXCEPT !.query = query], r.exc)
          ELSE aq' = Dispatch(ag, AfterRoute(ag, query, RouteSelected(ag, selected), top_k),
                              use_summary_gating)
    /\ UNCHANGED <<ag, searchVars, routerVars, unifiedVars, di, ing, gd>>

\* _summary_gated_answer
AQSummaryGate ==
    /\ aq.pc = "gate"
    /\ \E sb \in SummaryBackends, store \in Stores :
          aq' = SummaryGatedAnswer(aq, GetDocumentsBySummaries(sb, store, aq.collections,
                                                                ag.summary_top_n))
    /\ UNCHANGED <<ag, searchVars, routerVars, unifiedVars, di, ing, gd>>

\* search_multiple_collections, one iteration of its loop
AQSearchIterate ==
    /\ aq.pc = "search"
    /\ aq.i <= Len(aq.collections)
    /\ \E vo \in AQVectorOutcomes(MaxHits - Len(aq.all_results)), so \in AQSparseOutcomes :
          LET name  == aq.collections[aq.i]
              alloc == ChunkAllocation(ag.config.rag, aq.collections)
              r     == SearchCollection(engine, Backend(vo, so), name,
                                        AllocatedTopK(Some(alloc), name))
          IN  aq' = IF r.ok
                    THEN [aq EXCEPT !.i = @ + 1, !.all_results = @ \o r.val,
                                    !.searched = Append(@, name)]
                    ELSE Raised(aq, r.exc)
    /\ UNCHANGED <<ag, searchVars, routerVars, unifiedVars, di, ing, gd>>

\* search_multiple_collections returns; _standard_answer, lines 78-80
AQSearchFinish ==
    /\ aq.pc = "search"
    /\ aq.i > Len(aq.collections)
    /\ \E stream \in BOOLEAN : aq' = SearchFinished(aq, stream)
    /\ UNCHANGED <<ag, searchVars, routerVars, unifiedVars, di, ing, gd>>

\* _standard_answer, lines 82-83
AQRerank ==
    /\ aq.pc = "rerank"
    /\ \E enable \in OptionalFlags, available \in BOOLEAN, order \in {"keep", "reverse", "raise"} :
          aq' = ApplyReranking(ag, aq, enable, available, order)
    /\ UNCHANGED <<ag, searchVars, routerVars, unifiedVars, di, ing, gd>>

\* _standard_answer, lines 84-86
AQContext ==
    /\ aq.pc = "context"
    /\ \E use_parent_docs \in OptionalFlags, store \in Stores :
          aq' = GetContext(ag, aq, use_parent_docs, store)
    /\ UNCHANGED <<ag, searchVars, routerVars, unifiedVars, di, ing, gd>>

\* _generate
AQGenerate ==
    /\ aq.pc = "generate"
    /\ \E stream \in BOOLEAN, llm \in LLMOutcomes : aq' = Generate(aq, stream, llm)
    /\ UNCHANGED <<ag, searchVars, routerVars, unifiedVars, di, ing, gd>>

\* the caller of a streaming call iterates the generator it was given
AQConsume ==
    /\ aq.pc = "done"
    /\ aq.ret[1].stream
    /\ ~aq.ret[1].consumed
    /\ \E llm \in StreamOutcomes : aq' = Consume(aq, llm)
    /\ UNCHANGED <<ag, searchVars, routerVars, unifiedVars, di, ing, gd>>

\* the caller is done with the call, having had its value or its exception
AQReturn ==
    /\ aq.pc \in {"done", "raised"}
    /\ aq' = AQIdle
    /\ UNCHANGED <<ag, searchVars, routerVars, unifiedVars, di, ing, gd>>

(***************************************************************************)
(* SpecSummary: SummaryRetriever.get_documents_by_summaries, each call a   *)
(* step, with the summary collections and the document store as the call   *)
(* finds them.                                                             *)
(***************************************************************************)
GDIdle ==
    [pc |-> "idle", sb |-> <<>>, store |-> <<>>, names |-> <<>>, top_n |-> 0,
     result |-> <<>>]

GDNames == { <<"c1">>, <<"c1", "c2">>, <<"c2", "c1">> }

GDTopN == { 1, MaxSummaryHits, DefaultSummaryTopN }

GDCall ==
    /\ gd.pc = "idle"
    /\ \E sb \in SummaryBackends, store \in Stores, names \in GDNames, top_n \in GDTopN :
          gd' = [pc |-> "returned", sb |-> sb, store |-> store, names |-> names,
                 top_n |-> top_n,
                 result |-> GetDocumentsBySummaries(sb, store, names, top_n)]
    /\ UNCHANGED <<searchVars, routerVars, answerVars, unifiedVars, di, ing>>

GDReturn ==
    /\ gd.pc = "returned"
    /\ gd' = GDIdle
    /\ UNCHANGED <<searchVars, routerVars, answerVars, unifiedVars, di, ing>>

(***************************************************************************)
(* UnifiedRAG (unified_rag.py): answer_question and _get_reranker.         *)
(* self.reranker is None after __init__, False after a failed              *)
(* construction, else the BGEReranker made; a BGEReranker is told apart by *)
(* the number of the constructor call that made it.                        *)
(***************************************************************************)
DefaultTokens == 600
URDefaultTopK == 20

RerankerNone == [is |-> "None", id |-> 0]
RerankerFalse == [is |-> "False", id |-> 0]
RerankerInstance(n) == [is |-> "instance", id |-> n]

\* `if reranker:`
Truthy(r) == r.is = "instance"

Threads == {"t1", "t2"}

\* the fields of a UnifiedRAG after __init__; beside them
\*   constructions  the calls of BGEReranker() made so far
\*   overlapped     a query was started while another was in progress
UnifiedRAG(query_router, rerank_disabled, default_tokens) ==
    [config |-> [llm_default_tokens |-> default_tokens, llm_max_tokens |-> None, top_k |-> None],
     query_router |-> query_router, rerank_disabled |-> rerank_disabled,
     reranker |-> RerankerNone, constructions |-> 0, overlapped |-> FALSE]

\* debug_info as lines 288-295 build it
URDebug0 ==
    [query |-> <<>>, collections_searched |-> <<>>, total_results |-> 0,
     reranking_enabled |-> FALSE, thinking_enabled |-> TRUE, top_k_used |-> None,
     routing_used |-> None, token_allocation |-> None, chunks_used |-> None,
     error |-> None, prompt_length |-> FALSE, answer_length |-> FALSE]

\* one activation of answer_question; the stream argument is drawn where
\* line 388 reads it
\*   selected   the selected_collections argument
\*   local      the value line 84 or 87 is about to store in self.reranker
\*   test       what `self.reranker is not False` read on line 88
\*   got        what _get_reranker returned
\*   rerank     "", "off", "unavailable", "keep" or "reverse"
UQIdle ==
    [pc |-> "idle", query |-> <<>>, selected |-> None, stream |-> FALSE, collections |-> <<>>,
     tokens |-> 0, top_k |-> 0, all_results |-> <<>>, local |-> RerankerNone, test |-> FALSE,
     got |-> RerankerNone, rerank |-> "", chunks |-> <<>>, ret |-> None, exc |-> "",
     debug |-> URDebug0, calls |-> [router |-> 0, get_reranker |-> 0, rerank |-> 0, llm |-> 0]]

\* answer_question, lines 303-310: the route without the router
URSelected(g, selected) ==
    [collections |-> IF selected = None \/ selected[1] = <<>> THEN CollectionKeys
                     ELSE selected[1],
     tokens |-> CfgGet(g.config.llm_default_tokens, DefaultTokens),
     routing_used |-> FALSE]

\* answer_question, lines 288-316
URAfterRoute(g, query, selected, route, top_k) ==
    LET k == CfgGet(top_k, CfgGet(g.config.top_k, URDefaultTopK))
    IN  [UQIdle EXCEPT !.pc = "search", !.query = query, !.selected = selected,
                       !.collections = route.collections,
                       !.tokens = route.tokens, !.top_k = k,
                       !.debug = [URDebug0 EXCEPT !.query = query,
                                     !.collections_searched = route.collections,
                                     !.routing_used = Some(route.routing_used),
                                     !.token_allocation = Some(route.tokens),
                                     !.top_k_used = Some(k)],
                       !.calls.router = IF route.routing_used THEN 1 ELSE 0]

\* UnifiedRAG.search_multiple_collections; backends[name] is what the
\* external services of collection `name` answer
RECURSIVE URSearchLoop(_, _, _, _, _)
URSearchLoop(eng, names, alloc, backends, all_results) ==
    IF names = <<>> THEN Ok(UR_Merge(all_results))
    ELSE LET name == Head(names)
             r    == SearchCollection(eng, backends[name], name, AllocatedTopK(alloc, name))
         IN  IF r.ok THEN URSearchLoop(eng, Tail(names), alloc, backends, all_results \o r.val)
             ELSE r

URSearchMultipleCollections(eng, names, backends) ==
    URSearchLoop(eng, names, Some(ChunkAllocation(eng.rag, names)), backends, <<>>)

\* answer_question, lines 320-331
URNoResults(a) ==
    [a EXCEPT !.pc = "done", !.debug.error = Some("no_results"),
              !.ret = Some([answer |-> "no_results", chunks |-> <<>>])]

\* answer_question, lines 317-333
URSearched(a, r) ==
    IF ~r.ok THEN [a EXCEPT !.pc = "raised", !.exc = r.exc]
    ELSE LET a1 == [a EXCEPT !.all_results = r.val, !.debug.total_results = Len(r.val)]
         IN  IF r.val = <<>> THEN URNoResults(a1) ELSE [a1 EXCEPT !.pc = "rerank"]

\* answer_question, line 346
URChunks(a, chunks) ==
    [a EXCEPT !.pc = "generate", !.chunks = chunks, !.debug.chunks_used = Some(Len(chunks))]

\* answer_question, lines 340-341 and 343-344
URTruncated(a, why) ==
    URChunks([a EXCEPT !.rerank = why, !.debug.reranking_enabled = FALSE],
             Slice(a.all_results, a.top_k))

\* answer_question, lines 333-336 and 342-344
URRerankEnter(g, a, enable) ==
    IF CfgGet(enable, ~g.rerank_disabled)
    THEN [a EXCEPT !.pc = "gr_check", !.calls.get_reranker = @ + 1]
    ELSE URTruncated(a, "off")

\* (a failed construction is tried again)
GetRerankerRetries(g) == ~Truthy(g.reranker) /\ ~g.rerank_disabled

\* _get_reranker, line 81
GetRerankerConstructs(g) == g.reranker = RerankerNone /\ ~g.rerank_disabled

\* _get_reranker, lines 82-87: BGEReranker() returns or raises
Construct(g, ok) ==
    IF ok THEN RerankerInstance(g.constructions + 1) ELSE RerankerFalse

\* _get_reranker, line 88, the value returned
GetRerankerValue(g, test) == IF test THEN g.reranker ELSE RerankerNone

\* answer_question, lines 337-341
URRerankApply(a, order) ==
    IF Truthy(a.got)
    THEN LET a1 == [a EXCEPT !.calls.rerank = @ + 1, !.rerank = order]
         IN  IF order = "raise" THEN [a1 EXCEPT !.pc = "raised", !.exc = "reranker"]
             ELSE URChunks([a1 EXCEPT !.debug.reranking_enabled = TRUE],
                           Rerank(a.all_results, a.top_k, order))
    ELSE URTruncated(a, "unavailable")

\* answer_question, lines 348-399
URGenerate(a, stream) ==
    IF stream
    THEN [a EXCEPT !.pc = "done", !.stream = TRUE, !.debug.prompt_length = TRUE,
                   !.ret = Some([answer |-> "generator", chunks |-> a.chunks])]
    ELSE [a EXCEPT !.pc = "done", !.debug.prompt_length = TRUE, !.debug.answer_length = TRUE,
                   !.calls.llm = @ + 1,
                   !.ret = Some([answer |-> "llm", chunks |-> a.chunks])]

(***************************************************************************)
(* SpecUnified: two threads call answer_question on one UnifiedRAG.  The   *)
(* steps of _get_reranker are the reads and writes of self.reranker.       *)
(***************************************************************************)
URHits == << Hit(TextA, MaxScore * (ScoreScale \div 64), "d1"),
             Hit(TextShort, ScoreScale \div 64, "d2") >>

\* what the external services answer to one query, in every collection: the
\* vector store raises, has no hit, or has the hits URHits
URBackends ==
    { [embed_ok |-> TRUE, vector_ok |-> ok, vector |-> v, sparse_ok |-> TRUE, sparse |-> <<>>] :
        ok \in BOOLEAN, v \in { <<>>, URHits } } \ 
    { [embed_ok |-> TRUE, vector_ok |-> FALSE, vector |-> URHits, sparse_ok |-> TRUE, sparse |-> <<>>] }

UnifiedRAGs ==
    { UnifiedRAG(FALSE, FALSE, None), UnifiedRAG(TRUE, FALSE, Some(300)),
      UnifiedRAG(TRUE, TRUE, None) }

\* answer_question, lines 288-316
URCall(t) ==
    /\ uq[t].pc = "idle"
    /\ \E query \in AQQueries, selected \in { None, Some(<<>>), Some(<<"c2">>) },
          top_k \in { None, Some(1) } :
          IF UsesRouter(ur, selected)
          THEN \E r \in RouteQuery(router.config, router.ollama_api, query, "llm",
                                   [raises |-> TRUE, text |-> <<>>]) :
                  uq' = [uq EXCEPT ![t] =
                            IF r.ok
                            THEN URAfterRoute(ur, query, selected, RouteRouted(r.val), top_k)
                            ELSE [UQIdle EXCEPT !.pc = "raised", !.query = query,
                                                !.selected = selected, !.exc = r.exc]]
          ELSE uq' = [uq EXCEPT ![t] = URAfterRoute(ur, query, selected,
                                                    URSelected(ur, selected), top_k)]
    /\ ur' = [ur EXCEPT !.overlapped = @ \/ \E u \in Threads \ {t} : uq[u].pc # "idle"]
    /\ UNCHANGED <<searchVars, routerVars, answerVars, di, ing, gd>>

\* answer_question, lines 317-331
URSearch(t) ==
    /\ uq[t].pc = "search"
    /\ \E b \in URBackends :
          uq' = [uq EXCEPT ![t] =
                    URSearched(uq[t], URSearchMultipleCollections(engine, uq[t].collections,
                                           [name \in SeqToSet(uq[t].collections) |-> b]))]
    /\ UNCHANGED <<ur, searchVars, routerVars, answerVars, di, ing, gd>>

\* answer_question, lines 333-336 and 342-344
URRerank(t) ==
    /\ uq[t].pc = "rerank"
    /\ \E enable \in OptionalFlags : uq' = [uq EXCEPT ![t] = URRerankEnter(ur, uq[t], enable)]
    /\ UNCHANGED <<ur, searchVars, routerVars, answerVars, di, ing, gd>>

\* _get_reranker, line 81
GRCheck(t) ==
    /\ uq[t].pc = "gr_check"
    /\ uq' = [uq EXCEPT ![t].pc = IF GetRerankerConstructs(ur) THEN "gr_construct"
                                   ELSE "gr_test"]
    /\ UNCHANGED <<ur, searchVars, routerVars, answerVars, di, ing, gd>>

\* _get_reranker, lines 82-86: the constructor runs
GRConstruct(t) ==
    /\ uq[t].pc = "gr_construct"
    /\ \E ok \in BOOLEAN :
          uq' = [uq EXCEPT ![t].pc = "gr_assign", ![t].local = Construct(ur, ok)]
    /\ ur' = [ur EXCEPT !.constructions = @ + 1]
    /\ UNCHANGED <<searchVars, routerVars, answerVars, di, ing, gd>>

\* _get_reranker, lines 84 and 87: self.reranker is stored
GRAssign(t) ==
    /\ uq[t].pc = "gr_assign"
    /\ ur' = [ur EXCEPT !.reranker = uq[t].local]
    /\ uq' = [uq EXCEPT ![t].pc = "gr_test"]
    /\ UNCHANGED <<searchVars, routerVars, answerVars, di, ing, gd>>

\* _get_reranker, line 88: `self.reranker is not False` is read
GRTest(t) ==
    /\ uq[t].pc = "gr_test"
    /\ uq' = [uq EXCEPT ![t].pc = "gr_value", ![t].test = (ur.reranker # RerankerFalse)]
    /\ UNCHANGED <<ur, searchVars, routerVars, answerVars, di, ing, gd>>

\* _get_reranker, line 88: the value is read and returned
GRValue(t) ==
    /\ uq[t].pc = "gr_value"
    /\ uq' = [uq EXCEPT ![t].pc = "rerank_apply", ![t].got = GetRerankerValue(ur, uq[t].test)]
    /\ UNCHANGED <<ur, searchVars, routerVars, answerVars, di, ing, gd>>

\* answer_question, lines 337-346
URApply(t) ==
    /\ uq[t].pc = "rerank_apply"
    /\ \E order \in {"keep", "reverse", "raise"} :
          uq' = [uq EXCEPT ![t] = URRerankApply(uq[t], order)]
    /\ UNCHANGED <<ur, searchVars, routerVars, answerVars, di, ing, gd>>

\* answer_question, lines 348-399
URAnswer(t) ==
    /\ uq[t].pc = "generate"
    /\ \E stream \in BOOLEAN : uq' = [uq EXCEPT ![t] = URGenerate(uq[t], stream)]
    /\ UNCHANGED <<ur, searchVars, routerVars, answerVars, di, ing, gd>>

\* the caller has the result, or the exception
URReturn(t) ==
    /\ uq[t].pc \in {"done", "raised"}
    /\ uq' = [uq EXCEPT ![t] = UQIdle]
    /\ UNCHANGED <<ur, searchVars, routerVars, answerVars, di, ing, gd>>

(***************************************************************************)
(* utils/doc_id.py: generate_doc_id.  A path is the sequence of its        *)
(* characters.  os.path.relpath resolves relative paths against the        *)
(* working directory of the process (posixpath).                           *)
(***************************************************************************)
\* str.split('/') without the empty items
RECURSIVE SplitPath(_, _)
SplitPath(p, cur) ==
    IF p = <<>> THEN (IF cur = <<>> THEN <<>> ELSE <<cur>>)
    ELSE IF Head(p) = "/" THEN (IF cur = <<>> THEN <<>> ELSE <<cur>>) \o SplitPath(Tail(p), <<>>)
    ELSE SplitPath(Tail(p), Append(cur, Head(p)))

\* posixpath.isabs
IsAbs(p) == p # <<>> /\ p[1] = "/"

\* posixpath.normpath of an absolute path, on its components
RECURSIVE NormComps(_, _)
NormComps(comps, acc) ==
    IF comps = <<>> THEN acc
    ELSE IF Head(comps) = <<".">> THEN NormComps(Tail(comps), acc)
    ELSE IF Head(comps) # <<".", ".">> THEN NormComps(Tail(comps), Append(acc, Head(comps)))
    ELSE IF acc # <<>> THEN NormComps(Tail(comps), SubSeq(acc, 1, Len(acc) - 1))
    ELSE NormComps(Tail(comps), acc)

\* posixpath.abspath, the components of normpath(join(os.getcwd(), p))
AbsComps(cwd, p) ==
    NormComps(IF IsAbs(p) THEN SplitPath(p, <<>>) ELSE SplitPath(cwd, <<>>) \o SplitPath(p, <<>>),
              <<>>)

\* len(commonprefix([start_list, path_list]))
RECURSIVE CommonLen(_, _)
CommonLen(a, b) ==
    IF a = <<>> \/ b = <<>> \/ Head(a) # Head(b) THEN 0 ELSE 1 + CommonLen(Tail(a), Tail(b))

\* '/'.join(comps)
RECURSIVE JoinPath(_)
JoinPath(comps) ==
    IF comps = <<>> THEN <<>>
    ELSE IF Len(comps) = 1 THEN Head(comps)
    ELSE Head(comps) \o <<"/">> \o JoinPath(Tail(comps))

\* os.path.relpath(path, start)
RelPath(cwd, path, start) ==
    IF path = <<>> THEN Raise("ValueError")
    ELSE LET start_list == AbsComps(cwd, start)
             path_list  == AbsComps(cwd, path)
             i          == CommonLen(start_list, path_list)
             rel_list   == [j \in 1..(Len(start_list) - i) |-> <<".", ".">>]
                           \o SubSeq(path_list, i + 1, Len(path_list))
         IN  Ok(IF rel_list = <<>> THEN <<".">> ELSE JoinPath(rel_list))

\* .replace('\\', '/')
ReplaceBackslash(s) == [i \in 1..Len(s) |-> IF s[i] = "\\" THEN "/" ELSE s[i]]

UpperLetters == <<"A", "B", "C", "D", "E", "F", "G", "H", "I", "J", "K", "L", "M",
                  "N", "O", "P", "Q", "R", "S", "T", "U", "V", "W", "X", "Y", "Z">>
LowerLetters == <<"a", "b", "c", "d", "e", "f", "g", "h", "i", "j", "k", "l", "m",
                  "n", "o", "p", "q", "r", "s", "t", "u", "v", "w", "x", "y", "z">>

\* .lower(), one character
LowerChar(c) ==
    IF \E i \in 1..Len(UpperLetters) : UpperLetters[i] = c
    THEN LowerLetters[CHOOSE i \in 1..Len(UpperLetters) : UpperLetters[i] = c]
    ELSE c

PathLowerCase(s) == [i \in 1..Len(s) |-> LowerChar(s[i])]

Whitespace == {" ", "\t", "\n", "\r"}

\* .strip()
RECURSIVE LStrip(_)
LStrip(s) == IF s # <<>> /\ Head(s) \in Whitespace THEN LStrip(Tail(s)) ELSE s

RECURSIVE RStrip(_)
RStrip(s) ==
    IF s # <<>> /\ s[Len(s)] \in Whitespace THEN RStrip(SubSeq(s, 1, Len(s) - 1)) ELSE s

Strip(s) == RStrip(LStrip(s))

\* (the case of the path is kept)
NormalizeCaseKept(rel_path) == Strip(ReplaceBackslash(rel_path))

\* generate_doc_id, line 15
Normalize(rel_path) == Strip(PathLowerCase(ReplaceBackslash(rel_path)))

\* generate_doc_id, lines 7-13
RelativePath(cwd, file_path, base_dir) ==
    IF base_dir # None /\ base_dir[1] # <<>>
    THEN LET r == RelPath(cwd, file_path, base_dir[1])
         IN  IF r.ok THEN r.val ELSE file_path
    ELSE file_path

\* the paths examined
PathLower == <<"d", "a", "t", "a", "/", "a", ".", "m", "d">>
PathUpper == <<"D", "a", "t", "a", "/", "A", ".", "m", "d">>
PathPadded == <<" ", "d", "a", "t", "a", "/", "a", ".", "m", "d", " ">>
PathBackslash == <<"d", "a", "t", "a", "\\", "a", ".", "m", "d">>
PathNested == <<"d", "a", "t", "a", "/", "s", "u", "b", "/", "a", ".", "m", "d">>
PathAbsolute == <<"/", "s", "r", "v", "/", "d", "a", "t", "a", "/", "a", ".", "m", "d">>
PathBare == <<"a", ".", "m", "d">>
PathEmpty == <<>>
DirEmpty == <<>>
DirData == <<"d", "a", "t", "a">>
DirSub == <<"d", "a", "t", "a", "/", "s", "u", "b">>
DirAbsolute == <<"/", "s", "r", "v", "/", "d", "a", "t", "a">>
DirUpper == <<"D", "a", "t", "a">>
CwdSrv == <<"/", "s", "r", "v">>
CwdHome == <<"/", "h", "o", "m", "e", "/", "a", "p", "p">>

\* hashlib.sha256(s.encode('utf-8')).hexdigest()[:32], for the strings the
\* paths examined normalize to
Sha256Hex32(s) ==
    CASE s = <<>> -> "e3b0c44298fc1c149afbf4c8996fb924"
      [] s = <<".", ".", "/", " ", "d", "a", "t", "a", "/", "a", ".", "m", "d">> -> "c31069ae7f314cc570f3dcf732abf4fc"
      [] s = <<".", ".", "/", ".", ".", "/", " ", "d", "a", "t", "a", "/", "a", ".", "m", "d">> -> "5fd2a7a01c513ca4d992b067809bc500"
      [] s = <<".", ".", "/", ".", ".", "/", ".", ".", "/", ".", ".", "/", "s", "r", "v", "/", "d", "a", "t", "a", "/", "a", ".", "m", "d">> -> "75865da0e973fd603da993767f7e120f"
      [] s = <<".", ".", "/", ".", ".", "/", ".", ".", "/", "s", "r", "v", "/", "d", "a", "t", "a", "/", "a", ".", "m", "d">> -> "1ebd9a488daca77946a5a5a8d90b97fc"
      [] s = <<".", ".", "/", ".", ".", "/", "D", "a", "t", "a", "/", "A", ".", "m", "d">> -> "beef26475783e02f5c115cc4667f0748"
      [] s = <<".", ".", "/", ".", ".", "/", "a", ".", "m", "d">> -> "a36b6b2a1e6fe5954a561f66c9a07a10"
      [] s = <<".", ".", "/", ".", ".", "/", "d", "a", "t", "a", "/", "a", ".", "m", "d">> -> "fe15219752421c6fc5223f371eb187b2"
      [] s = <<".", ".", "/", ".", ".", "/", "h", "o", "m", "e", "/", "a", "p", "p", "/", " ", "d", "a", "t", "a", "/", "a", ".", "m", "d">> -> "878c8c483c6189f84336f9d46a2c946b"
      [] s = <<".", ".", "/", ".", ".", "/", "h", "o", "m", "e", "/", "a", "p", "p", "/", "D", "a", "t", "a", "/", "A", ".", "m", "d">> -> "b743bf38e20f5bc9e5e624a2064c900e"
      [] s = <<".", ".", "/", ".", ".", "/", "h", "o", "m", "e", "/", "a", "p", "p", "/", "a", ".", "m", "d">> -> "39480e849fc700fd6513e57f1ca86880"
      [] s = <<".", ".", "/", ".", ".", "/", "h", "o", "m", "e", "/", "a", "p", "p", "/", "d", "a", "t", "a", "/", "a", ".", "m", "d">> -> "8e8aa13de3df4959a8a7cda28b1a4451"
      [] s = <<".", ".", "/", ".", ".", "/", "h", "o", "m", "e", "/", "a", "p", "p", "/", "d", "a", "t", "a", "/", "s", "u", "b", "/", "a", ".", "m", "d">> -> "027671e5b2b6f121d3b1a912576155c7"
      [] s = <<".", ".", "/", "D", "a", "t", "a", "/", "A", ".", "m", "d">> -> "23c1d28bea8347ca615985ffe024fbf8"
      [] s = <<".", ".", "/", "a", ".", "m", "d">> -> "66393eea276b373e7c16413aaad4ffbc"
      [] s = <<".", ".", "/", "d", "a", "t", "a", "/", "a", ".", "m", "d">> -> "de62efbfcd4fe930a8c0c7249d9ce078"
      [] s = <<".", ".", "/", "d", "a", "t", "a", "/", "s", "u", "b", "/", "a", ".", "m", "d">> -> "8748d96130371c349382f0d0ad9d4a84"
      [] s = <<"/", "s", "r", "v", "/", "d", "a", "t", "a", "/", "a", ".", "m", "d">> -> "e16bebfc73c28552c33653570a194317"
      [] s = <<"A", ".", "m", "d">> -> "2d63174e212b2fdb12116ac35d5d0f51"
      [] s = <<"D", "a", "t", "a", "/", "A", ".", "m", "d">> -> "ca909b778fa8209e8c1e288c0226fbf0"
      [] s = <<"a", ".", "m", "d">> -> "fecccc97532467adbf93017b357c8b17"
      [] s = <<"d", "a", "t", "a", "/", "a", ".", "m", "d">> -> "b74d328fd66e36ae41ada8033bd6a512"
      [] s = <<"d", "a", "t", "a", "/", "s", "u", "b", "/", "a", ".", "m", "d">> -> "5e0e8c9e507826fbf874ec1d9a643115"
      [] s = <<"s", "u", "b", "/", "a", ".", "m", "d">> -> "66ce696eb825289f0c1ce3c23fd7c31a"

\* generate_doc_id
GenerateDocId(cwd, file_path, base_dir) ==
    Sha256Hex32(Normalize(RelativePath(cwd, file_path, base_dir)))

(***************************************************************************)
(* SpecDocId: two processes, the ingestion and the summary indexer, each   *)
(* with its working directory, call generate_doc_id.                       *)
(***************************************************************************)
Runs == {"ingest", "summary"}

FilePaths == { PathLower, PathUpper, PathPadded, PathBackslash, PathNested, PathAbsolute,
               PathBare, PathEmpty }

BaseDirs == { None, Some(DirEmpty), Some(DirData), Some(DirSub), Some(DirAbsolute),
              Some(DirUpper) }

Cwds == { CwdSrv, CwdHome }

DIIdle(cwd) ==
    [pc |-> "idle", cwd |-> cwd, file_path |-> <<>>, base_dir |-> None, doc_id |-> ""]

DocIdCall(r) ==
    /\ di[r].pc = "idle"
    /\ \E file_path \in FilePaths, base_dir \in BaseDirs :
          di' = [di EXCEPT ![r] = [@ EXCEPT !.pc = "done", !.file_path = file_path,
                                            !.base_dir = base_dir,
                                            !.doc_id = GenerateDocId(di[r].cwd, file_path, base_dir)]]
    /\ UNCHANGED <<searchVars, routerVars, answerVars, unifiedVars, ing, gd>>

DocIdReturn(r) ==
    /\ di[r].pc = "done"
    /\ di' = [di EXCEPT ![r] = DIIdle(@.cwd)]
    /\ UNCHANGED <<searchVars, routerVars, answerVars, unifiedVars, ing, gd>>

(***************************************************************************)
(* Ingestion: FileIngestor (ingestion/file_ingest.py) and SummaryIndexer   *)
(* (summary/summary_index.py) write the vector collections, the summary    *)
(* collections and the document store.                                     *)
(*                                                                         *)
(* A vector collection is a set of points [collection, id, doc_id,         *)
(* source_path, file]; `file` is the file the point was made from.  A      *)
(* point id is the SHA-256 of the string kept here unhashed, so two ids    *)
(* are equal exactly when the strings are.                                 *)
(***************************************************************************)
\* len(text.strip()) of a run-length encoded text
RECURSIVE StrippedLen(_)
StrippedLen(t) ==
    IF t = <<>> THEN 0
    ELSE IF Head(t)[1] = " " THEN StrippedLen(Tail(t))
    ELSE IF t[Len(t)][1] = " " THEN StrippedLen(SubSeq(t, 1, Len(t) - 1))
    ELSE TextLen(t)

MinContentLen == 10
MinSummaryContentLen == 50

\* `not text or len(text.strip()) < 10`
NoContent(text, least) == text = <<>> \/ StrippedLen(text) < least

\* Path(file_path).suffix.lower()
Suffix(file_path) ==
    LET dots == { i \in 2..Len(file_path) : file_path[i] = "." /\ file_path[i - 1] # "/" }
        last == CHOOSE i \in dots : \A j \in dots : j <= i
    IN  IF dots = {} \/ \E i \in 1..Len(file_path) : file_path[i] = "/" /\ i > last
        THEN <<>>
        ELSE PathLowerCase(SubSeq(file_path, last, Len(file_path)))

ExtMd == <<".", "m", "d">>
ExtJson == <<".", "j", "s", "o", "n">>
ExtPdf == <<".", "p", "d", "f">>

\* get_normalized_path
GetNormalizedPath(cwd, file_path, base_dir) ==
    ReplaceBackslash(RelativePath(cwd, file_path, base_dir))

\* FileIngestor._generate_chunk_id
GenerateChunkId(doc_id, chunk_index) == <<doc_id, "chunk", chunk_index>>

\* summary_id of index_document
SummaryId(doc_id) == <<doc_id, "summary">>

\* client.upsert: a point replaces the point of the same id in the collection
Upsert(stored, points) ==
    { p \in stored : \A q \in points : ~(q.collection = p.collection /\ q.id = p.id) }
        \cup points

\* DocStore.put as FileIngestor sees it: the store keeps the document or
\* the call raises.  QdrantDocStore.put evaluates datetime.now(datetime.UTC)
\* with `datetime` the class, which has no attribute UTC, before it writes.
PutStores(docstore, backend_ok) == docstore # "QdrantDocStore" /\ backend_ok

DocStorePut(docs, doc_id, text, source_path) ==
    { d \in docs : d.doc_id # doc_id }
        \cup { [doc_id |-> doc_id, text |-> text, source_path |-> source_path] }

DocStoreKinds == { "QdrantDocStore", "DocStore" }

\* the files on disk and the directories that hold them (rglob)
Files == { PathLower, PathNested }
Directories == { DirData, DirSub }

IsUnder(file_path, directory) ==
    /\ Len(file_path) > Len(directory) + 1
    /\ SubSeq(file_path, 1, Len(directory)) = directory
    /\ file_path[Len(directory) + 1] = "/"

FilesUnder(directory) ==
    LET fs == { f \in Files : IsUnder(f, directory) }
    IN  IF fs = {} THEN <<>>
        ELSE IF PathLower \in fs /\ PathNested \in fs THEN <<PathLower, PathNested>>
        ELSE << CHOOSE f \in fs : TRUE >>

\* what a file holds when it is read
FileShort == << <<" ", 1>>, <<"x", MinContentLen - 1>>, <<" ", 1>> >>
FileBrief == << <<"x", MinContentLen>> >>
FileLong  == << <<"x", MinSummaryContentLen>> >>
FileTexts == { <<>>, FileShort, FileBrief, FileLong }

\* the number of chunks the chunker returns
ChunkCounts == 0..1

\* get_collection_name(file_metadata.get('DocumentType', 'default'), config):
\* the collection the metadata of the path maps to
FileCollection(file_path) == IF IsUnder(file_path, DirSub) THEN "c2" ELSE "c1"

\* the collection_name the caller of index_directory passes
SummaryCollections == { "c1" }

FIIdle ==
    [pc |-> "idle", file_path |-> <<>>, text |-> <<>>, collection |-> "", doc_id |-> "",
     source_path |-> <<>>, chunk_data |-> 0, idx |-> 0, points |-> {}, ret |-> None]

SIIdle ==
    [pc |-> "idle", directory |-> <<>>, collection_name |-> "", pending |-> <<>>,
     success_files |-> 0]

\* FileIngestor and SummaryIndexer after construction, with the stores empty
Ingestion(docstore, ingest_base, index_base, embed_summaries) ==
    [docstore_kind |-> docstore, base_dir |-> ingest_base,
     indexer_base_dir |-> index_base, embed_summaries |-> embed_summaries,
     cwd |-> CwdSrv, docs |-> {}, chunks |-> {}, summaries |-> {},
     fi |-> FIIdle, si |-> SIIdle]

\* ingest_file up to prepare_doc_metadata: dispatch on the suffix, read the
\* file, refuse a file without content, derive collection and identifier
IngestPrepared(g, file_path, read) ==
    IF Suffix(file_path) \notin { ExtMd, ExtJson, ExtPdf } \/ ~read.ok
            \/ NoContent(read.val, MinContentLen)
    THEN [FIIdle EXCEPT !.pc = "done", !.file_path = file_path, !.ret = Some(FALSE)]
    ELSE [FIIdle EXCEPT !.pc = "put", !.file_path = file_path, !.text = read.val,
                        !.collection = FileCollection(file_path),
                        !.doc_id = GenerateDocId(g.cwd, file_path, g.base_dir),
                        !.source_path = GetNormalizedPath(g.cwd, file_path, g.base_dir)]

IngestFile ==
    /\ ing.fi.pc = "idle"
    /\ \E file_path \in Files \cup { DirData },
          read \in { Raise("OSError") } \cup { Ok(t) : t \in FileTexts } :
          ing' = [ing EXCEPT !.fi = IngestPrepared(ing, file_path, read)]
    /\ UNCHANGED <<searchVars, routerVars, answerVars, unifiedVars, di, gd>>

IngestPutUnchecked(g, stored) ==
    IF stored
    THEN [g EXCEPT !.docs = DocStorePut(@, g.fi.doc_id, g.fi.text, g.fi.source_path),
                   !.fi.pc = "chunk"]
    ELSE [g EXCEPT !.fi.pc = "chunk"]

\* self.docstore.put(doc_id, text, {...}); an exception ends the ingestion
IngestPutResult(g, stored) ==
    IF stored
    THEN [g EXCEPT !.docs = DocStorePut(@, g.fi.doc_id, g.fi.text, g.fi.source_path),
                   !.fi.pc = "chunk"]
    ELSE [g EXCEPT !.fi.pc = "done", !.fi.ret = Some(FALSE)]

IngestPut ==
    /\ ing.fi.pc = "put"
    /\ \E backend_ok \in BOOLEAN :
          ing' = IngestPutResult(ing, PutStores(ing.docstore_kind, backend_ok))
    /\ UNCHANGED <<searchVars, routerVars, answerVars, unifiedVars, di, gd>>

\* chunk_data = self.chunker.chunk_text(...)
IngestChunk ==
    /\ ing.fi.pc = "chunk"
    /\ \E chunked \in { Raise("Exception") } \cup { Ok(n) : n \in ChunkCounts } :
          ing' = IF chunked.ok
                 THEN [ing EXCEPT !.fi.pc = "embed", !.fi.chunk_data = chunked.val]
                 ELSE [ing EXCEPT !.fi.pc = "done", !.fi.ret = Some(FALSE)]
    /\ UNCHANGED <<searchVars, routerVars, answerVars, unifiedVars, di, gd>>

\* one iteration of the loop over chunk_data; an empty embedding skips the chunk
IngestEmbed ==
    /\ ing.fi.pc = "embed"
    /\ ing.fi.idx < ing.fi.chunk_data
    /\ \E embedding \in BOOLEAN :
          ing' = [ing EXCEPT
                    !.fi.idx = @ + 1,
                    !.fi.points =
                        IF embedding
                        THEN @ \cup { [collection |-> ing.fi.collection,
                                       id |-> GenerateChunkId(ing.fi.doc_id, ing.fi.idx),
                                       doc_id |-> ing.fi.doc_id,
                                       source_path |-> ing.fi.source_path,
                                       file |-> ing.fi.file_path] }
                        ELSE @]
    /\ UNCHANGED <<searchVars, routerVars, answerVars, unifiedVars, di, gd>>

\* _upsert_points
IngestUpsert ==
    /\ ing.fi.pc = "embed"
    /\ ing.fi.idx = ing.fi.chunk_data
    /\ \E upsert_ok \in BOOLEAN :
          ing' = IF ing.fi.points # {} /\ upsert_ok
                 THEN [ing EXCEPT !.chunks = Upsert(@, ing.fi.points),
                                  !.fi.pc = "done", !.fi.ret = Some(TRUE)]
                 ELSE [ing EXCEPT !.fi.pc = "done", !.fi.ret = Some(FALSE)]
    /\ UNCHANGED <<searchVars, routerVars, answerVars, unifiedVars, di, gd>>

IngestReturn ==
    /\ ing.fi.pc = "done"
    /\ ing' = [ing EXCEPT !.fi = FIIdle]
    /\ UNCHANGED <<searchVars, routerVars, answerVars, unifiedVars, di, gd>>

\* SummaryIndexer.index_directory up to its loop
IndexDirectory ==
    /\ ing.si.pc = "idle"
    /\ \E directory \in Directories \cup { PathBare }, collection_name \in SummaryCollections :
          ing' = [ing EXCEPT
                    !.indexer_base_dir = IF @ = None THEN Some(directory) ELSE @,
                    !.si = [SIIdle EXCEPT !.pc = "loop", !.directory = directory,
                                          !.collection_name = collection_name,
                                          !.pending = FilesUnder(directory)]]
    /\ UNCHANGED <<searchVars, routerVars, answerVars, unifiedVars, di, gd>>

\* index_document: the point it upserts, or none when it returns False
IndexedPoint(g, file_path, collection_name, read, summary_ok, embedding, upsert_ok) ==
    IF ~read.ok \/ NoContent(read.val, MinSummaryContentLen) \/ ~summary_ok
    THEN [ret |-> FALSE, points |-> {}]
    ELSE IF ~g.embed_summaries THEN [ret |-> TRUE, points |-> {}]
    ELSE IF ~embedding \/ ~upsert_ok THEN [ret |-> FALSE, points |-> {}]
    ELSE LET doc_id == GenerateDocId(g.cwd, file_path, g.indexer_base_dir)
         IN  [ret |-> TRUE,
              points |-> { [collection |-> collection_name, id |-> SummaryId(doc_id),
                            doc_id |-> doc_id,
                            source_path |-> GetNormalizedPath(g.cwd, file_path,
                                                              g.indexer_base_dir),
                            file |-> file_path] }]

\* one iteration of the loop of index_directory
IndexDocument ==
    /\ ing.si.pc = "loop"
    /\ ing.si.pending # <<>>
    /\ \E read \in { Raise("OSError") } \cup { Ok(t) : t \in FileTexts },
          summary_ok \in BOOLEAN, embedding \in BOOLEAN, upsert_ok \in BOOLEAN :
          LET r == IndexedPoint(ing, Head(ing.si.pending), ing.si.collection_name, read,
                                summary_ok, embedding, upsert_ok)
          IN  ing' = [ing EXCEPT
                        !.summaries = Upsert(@, r.points),
                        !.si.pending = Tail(@),
                        !.si.success_files = IF r.ret THEN @ + 1 ELSE @]
    /\ UNCHANGED <<searchVars, routerVars, answerVars, unifiedVars, di, gd>>

IndexReturn ==
    /\ ing.si.pc = "loop"
    /\ ing.si.pending = <<>>
    /\ ing' = [ing EXCEPT !.si = SIIdle]
    /\ UNCHANGED <<searchVars, routerVars, answerVars, unifiedVars, di, gd>>

(***************************************************************************)
(* Specifications                                                          *)
(***************************************************************************)
AGUnused == AnswerGenerator(FALSE, FALSE, FALSE, FALSE, DefaultSummaryTopN, FALSE, FALSE)

EngineUnused == [hybrid_disabled |-> FALSE, bm25_retriever |-> FALSE,
                 rag |-> [base_chunks_per_collection |-> None, priority_boost |-> None,
                          collection_priority |-> None]]
URUnused == [config |-> [llm_default_tokens |-> <<>>, llm_max_tokens |-> <<>>, top_k |-> <<>>],
             query_router |-> FALSE, rerank_disabled |-> FALSE,
             reranker |-> [is |-> "None", id |-> 0], constructions |-> 0, overlapped |-> FALSE]
INGUnused == Ingestion("DocStore", None, None, TRUE)

RouterUnused == [config |-> CHOOSE c \in RouterConfigs : c.default_collections = None
                                       /\ c.min_tokens = None /\ c.llm_max_tokens = None,
                 ollama_api |-> FALSE]

InitSearch ==
    /\ engine \in Engines
    /\ sm = SMIdle
    /\ router = RouterUnused
    /\ rq = RQIdle
    /\ ag = AGUnused
    /\ aq = AQIdle
    /\ ur = URUnused
    /\ uq = [t \in Threads |-> UQIdle]
    /\ di = [r \in Runs |-> DIIdle(CwdSrv)]
    /\ ing = INGUnused
    /\ gd = GDIdle

NextSearch == SMCall \/ SMIterate \/ SMFinish \/ SMReturn

SpecSearch == InitSearch /\ [][NextSearch]_vars

InitRouter ==
    /\ router \in [config : RouterConfigs, ollama_api : BOOLEAN]
    /\ rq = RQIdle
    /\ engine = EngineUnused
    /\ sm = SMIdle
    /\ ag = AGUnused
    /\ aq = AQIdle
    /\ ur = URUnused
    /\ uq = [t \in Threads |-> UQIdle]
    /\ di = [r \in Runs |-> DIIdle(CwdSrv)]
    /\ ing = INGUnused
    /\ gd = GDIdle

NextRouter == CallRouteQuery \/ CallRouteSimple \/ CallRouteWithLLMAnalysis \/ RouterReturn

SpecRouter == InitRouter /\ [][NextRouter]_vars

AQEngine == [hybrid_disabled |-> FALSE, bm25_retriever |-> TRUE, rag |-> AGConfig.rag]

AQRouterConfigs ==
    { c \in RouterConfigs : c.default_collections \in { Some(<<"c1">>), Some(<<>>) }
                              /\ c.min_tokens = None /\ c.llm_max_tokens = None }

AQRouters ==
    { r \in [config : AQRouterConfigs, ollama_api : BOOLEAN] :
        r.ollama_api \/ r.config.default_collections = Some(<<"c1">>) }

Init ==
    /\ ag \in AnswerGenerators
    /\ router \in IF ag.query_router THEN AQRouters ELSE { RouterUnused }
    /\ engine = AQEngine
    /\ aq = AQIdle
    /\ sm = SMIdle
    /\ rq = RQIdle
    /\ ur = URUnused
    /\ uq = [t \in Threads |-> UQIdle]
    /\ di = [r \in Runs |-> DIIdle(CwdSrv)]
    /\ ing = INGUnused
    /\ gd = GDIdle

Next ==
    \/ AQCall \/ AQSummaryGate \/ AQSearchIterate \/ AQSearchFinish \/ AQRerank
    \/ AQContext \/ AQGenerate \/ AQConsume \/ AQReturn

Spec == Init /\ [][Next]_vars

URRouter == CHOOSE r \in AQRouters : ~r.ollama_api

UREngine == [hybrid_disabled |-> TRUE, bm25_retriever |-> FALSE, rag |-> AGConfig.rag]

InitUnified ==
    /\ ur \in UnifiedRAGs
    /\ uq = [t \in Threads |-> UQIdle]
    /\ di = [r \in Runs |-> DIIdle(CwdSrv)]
    /\ ing = INGUnused
    /\ gd = GDIdle
    /\ router = IF ur.query_router THEN URRouter ELSE RouterUnused
    /\ engine = UREngine
    /\ sm = SMIdle
    /\ rq = RQIdle
    /\ ag = AGUnused
    /\ aq = AQIdle

NextUnified ==
    \E t \in Threads :
        \/ URCall(t) \/ URSearch(t) \/ URRerank(t)
        \/ GRCheck(t) \/ GRConstruct(t) \/ GRAssign(t) \/ GRTest(t) \/ GRValue(t)
        \/ URApply(t) \/ URAnswer(t) \/ URReturn(t)

SpecUnified == InitUnified /\ [][NextUnified]_vars

InitDocId ==
    /\ di \in [Runs -> { DIIdle(cwd) : cwd \in Cwds }]
    /\ engine = EngineUnused
    /\ sm = SMIdle
    /\ router = RouterUnused
    /\ rq = RQIdle
    /\ ag = AGUnused
    /\ aq = AQIdle
    /\ ur = URUnused
    /\ uq = [t \in Threads |-> UQIdle]
    /\ ing = INGUnused
    /\ gd = GDIdle

NextDocId == \E r \in Runs : DocIdCall(r) \/ DocIdReturn(r)

SpecDocId == InitDocId /\ [][NextDocId]_vars

Ingestions ==
    { Ingestion(k, b, i, e) : k \in DocStoreKinds, b \in { None, Some(DirData) },
                              i \in { None, Some(DirData) }, e \in BOOLEAN }

InitIngest ==
    /\ ing \in Ingestions
    /\ gd = GDIdle
    /\ di = [r \in Runs |-> DIIdle(CwdSrv)]
    /\ engine = EngineUnused
    /\ sm = SMIdle
    /\ router = RouterUnused
    /\ rq = RQIdle
    /\ ag = AGUnused
    /\ aq = AQIdle
    /\ ur = URUnused
    /\ uq = [t \in Threads |-> UQIdle]

NextIngest ==
    \/ IngestFile \/ IngestPut \/ IngestChunk \/ IngestEmbed \/ IngestUpsert \/ IngestReturn
    \/ IndexDirectory \/ IndexDocument \/ IndexReturn

SpecIngest == InitIngest /\ [][NextIngest]_vars

InitSummary ==
    /\ gd = GDIdle
    /\ ing = INGUnused
    /\ di = [r \in Runs |-> DIIdle(CwdSrv)]
    /\ engine = EngineUnused
    /\ sm = SMIdle
    /\ router = RouterUnused
    /\ rq = RQIdle
    /\ ag = AGUnused
    /\ aq = AQIdle
    /\ ur = URUnused
    /\ uq = [t \in Threads |-> UQIdle]

NextSummary == GDCall \/ GDReturn

SpecSummary == InitSummary /\ [][NextSummary]_vars

(***************************************************************************)
(* Properties of search_multiple_collections                               *)
(***************************************************************************)
\* the k-th character of a text, "" past its end
RECURSIVE CharAt(_, _)
CharAt(t, k) ==
    IF t = <<>> THEN ""
    ELSE IF k <= Head(t)[2] THEN Head(t)[1]
    ELSE CharAt(Tail(t), k - Head(t)[2])

\* two fragments agree on their first 200 characters
SameFingerprint(r1, r2) ==
    \A k \in 1..FingerprintLen : CharAt(r1.text, k) = CharAt(r2.text, k)

\* `out` keeps one fragment per fingerprint of `all`, the best-scored one,
\* loses no fingerprint, and is in descending score order
DedupedBestFirst(all, out) ==
    /\ \A i, j \in 1..Len(out) : SameFingerprint(out[i], out[j]) => i = j
    /\ \A k \in 1..Len(all) : \E i \in 1..Len(out) : SameFingerprint(all[k], out[i])
    /\ \A i \in 1..Len(out) :
          /\ \E k \in 1..Len(all) : all[k] = out[i]
          /\ \A k \in 1..Len(all) :
                SameFingerprint(all[k], out[i]) => all[k].score <= out[i].score
    /\ \A i \in 1..Len(out) - 1 : out[i].score >= out[i + 1].score

\* C10: search_multiple_collections (SearchEngine's and UnifiedRAG's) returns
\* exactly one fragment per distinct 200-character fingerprint of the
\* per-collection results, the highest-scoring one of each, loses no
\* fingerprint, and returns them in descending score order.
C10_DedupBestFirst ==
    sm.pc = "done" => DedupedBestFirst(sm.all_results, sm.out)

\* the same statement of SearchEngine.search_multiple_collections alone
SearchEngineDedupBestFirst ==
    (sm.pc = "done" /\ sm.impl = "SearchEngine") => DedupedBestFirst(sm.all_results, sm.out)

\* SearchEngine merged two fragments that share a fingerprint and differ in score
SearchEngineDedupHappened ==
    /\ sm.pc = "done" /\ sm.impl = "SearchEngine"
    /\ \E i, j \in 1..Len(sm.all_results) :
          /\ i < j
          /\ SameFingerprint(sm.all_results[i], sm.all_results[j])
          /\ sm.all_results[i].text # sm.all_results[j].text
          /\ sm.all_results[i].score < sm.all_results[j].score

(***************************************************************************)
(* Properties of the QueryRouter                                           *)
(***************************************************************************)
\* the router model was consulted and answered with a text
ModelReplied == rq.chat # None /\ ~rq.chat[1].raises

\* the JSON values the reply parses to: directly after whitespace collapsing,
\* else from the brace-delimited substring the regular expression extracts
ReplyValues(text) ==
    LET c == CollapseWs(text, TRUE)
    IN  IF JsonLoads(c).ok THEN { JsonLoads(c).val }
        ELSE IF RegexSearch(c) # None /\ JsonLoads(RegexSearch(c)[1]).ok
             THEN { JsonLoads(RegexSearch(c)[1]).val }
        ELSE {}

\* C5: no entry point of the QueryRouter raises, whatever the model does and
\* also when no language model is configured.
C5_RouterNeverRaises == rq.pc # "raised"

\* the entry points other than a direct route_with_llm_analysis call without a
\* language model do return a decision
RouterReturnsWithModel ==
    (rq.pc = "raised") => (rq.entry = "route_with_llm_analysis" /\ ~router.ollama_api)

FailureReasons ==
    { JStr("Empty response from router LLM"), JStr("No valid JSON found in response"),
      JStr("Failed to parse router response") }

\* C6: a reply that is not parseable as JSON, neither directly nor through the
\* extracted brace-delimited substring, makes the model-assisted router return
\* the configured default collections and the default token allocation with a
\* reasoning that names the failure; it does not raise.
C6_UnparseableReplyFallsBack ==
    (rq.pc # "idle" /\ ModelReplied /\ ReplyValues(rq.chat[1].text) = {}) =>
        /\ rq.pc = "returned"
        /\ rq.result[1].collections =
              CfgGet(router.config.default_collections, router.config.collection_descriptions)
        /\ rq.result[1].token_allocation =
              CfgGet(router.config.llm_max_tokens, DefaultLLMMaxTokens)
        /\ rq.result[1].reasoning \in FailureReasons

\* a reply that holds braces and still does not parse was answered
C6_Witness ==
    /\ rq.pc = "returned" /\ ModelReplied
    /\ ReplyValues(rq.chat[1].text) = {}
    /\ \E i \in 1..Len(rq.chat[1].text) : rq.chat[1].text[i].k = "lb"
    /\ rq.result[1].reasoning = JStr("Failed to parse router response")

\* C7: every returned RoutingDecision has its token allocation within
\* [min_tokens, max_tokens] of the router configuration.
C7_TokenAllocationWithinBounds ==
    rq.pc = "returned" =>
        /\ rq.result[1].token_allocation >= CfgGet(router.config.min_tokens, DefaultMinTokens)
        /\ rq.result[1].token_allocation <= CfgGet(router.config.max_tokens, DefaultMaxTokens)

\* the reply parsed to an object whose token_allocation is the number v
RequestsTokens(v) ==
    /\ rq.pc # "idle" /\ ModelReplied
    /\ \E val \in ReplyValues(rq.chat[1].text) :
          val.t = "dict" /\ val.token_allocation = JInt(v)

\* ... and whose collections value is absent, a list or a string
UsableCollections ==
    \E val \in ReplyValues(rq.chat[1].text) :
        val.t = "dict" /\ val.collections.t \in {"absent", "list", "str"}

Clamped(v) ==
    LET lo == CfgGet(router.config.min_tokens, DefaultMinTokens)
        hi == CfgGet(router.config.max_tokens, DefaultMaxTokens)
    IN  IF v > hi THEN (IF hi < lo THEN lo ELSE hi) ELSE IF v < lo THEN lo ELSE v

RequestedTokens == { 50, 150, 500, 1250, 5000 }

C9_CollectionsAreConfigured ==
    rq.pc = "returned" =>
        /\ SeqToSet(rq.result[1].collections) \subseteq SeqToSet(router.config.collection_descriptions)
        /\ rq.result[1].collections = <<>> => router.config.default_collections = Some(<<>>)
        /\ \A val \in (IF ModelReplied THEN ReplyValues(rq.chat[1].text) ELSE {}) :
              (val.t = "dict" /\ val.collections.t = "list" /\ val.token_allocation.t = "int") =>
                LET kept == SeqToSet(val.collections.l)
                              \cap SeqToSet(router.config.collection_descriptions)
                IN  IF kept = {}
                    THEN rq.result[1].collections =
                           CfgGet(router.config.default_collections,
                                  router.config.collection_descriptions)
                    ELSE SeqToSet(rq.result[1].collections) = kept

\* the model named a configured and an unconfigured collection
C9_Witness ==
    /\ rq.pc = "returned" /\ ModelReplied
    /\ \E val \in ReplyValues(rq.chat[1].text) :
          /\ val.t = "dict" /\ val.collections = JList(<<"c2", "zz">>)
          /\ val.token_allocation.t = "int"
    /\ rq.result[1].collections = <<"c2">>

(***************************************************************************)
(* Properties of answer_question                                           *)
(***************************************************************************)
\* C1: whenever the merged search result of a query is empty -- also when
\* there was no collection to search -- answer_question returns the fixed
\* no-results message (one string when buffered, a one-fragment sequence
\* when streamed), with no chunks, the trace has error = 'no_results', and the
\* answer model has not been called.
C1_EmptySearchGivesNoResults ==
    (aq.pc = "done" /\ aq.calls.search > 0 /\ SE_Merge(aq.all_results) = <<>>) =>
        /\ aq.debug.error = Some("no_results")
        /\ aq.calls.llm = 0
        /\ aq.ret[1].chunks = <<>>
        /\ IF aq.ret[1].stream
           THEN /\ aq.ret[1].gen = "err"
                /\ aq.ret[1].consumed => aq.ret[1].out = << Message(NoResultsMessage) >>
           ELSE aq.ret[1].out = << Message(NoResultsMessage) >>

\* a streamed no-results answer, iterated to its end, of a query routed to no
\* collection at all
C1_Witness ==
    /\ aq.pc = "done" /\ aq.calls.search > 0 /\ aq.results = <<>>
    /\ aq.collections = <<>>
    /\ aq.ret[1].stream /\ aq.ret[1].consumed

\* C2: once the summary gate has returned documents, the chunks are those
\* documents, the context is built from them, the call is at generation or
\* past it, and neither search_multiple_collections nor the reranker has been
\* called for the query.
C2_GateHitSkipsSearch ==
    aq.gate = "hit" =>
        /\ aq.pc \in {"generate", "done"}
        /\ aq.docs # <<>>
        /\ aq.calls.search = 0 /\ aq.searched = <<>>
        /\ aq.calls.get_reranker = 0 /\ aq.calls.rerank = 0
        /\ aq.chunks = ChunksToContextDocs(aq.docs)
        /\ aq.context = FormatContext(aq.chunks)
        /\ aq.pc = "done" => (aq.ret[1].chunks = aq.chunks /\ aq.ret[1].gen # "err")

\* a gated answer that has been generated
C2_Witness == aq.gate = "hit" /\ aq.pc = "done" /\ aq.calls.llm = 1

\* The standard path of the call `a` has finished, run again from line 47
\* with summary gating disabled: the same routing, the same per-collection
\* search results and the same answers of the reranker, the document store
\* and the answer model.
StandardReplay(g, a) ==
    LET ret  == a.ret[1]
        base == StandardAnswer(AfterRoute(g, a.query,
                                   [collections |-> a.collections, tokens |-> a.tokens,
                                    routing_used |-> a.debug.routing_used[1]],
                                   Some(a.top_k)))
        s1   == SearchFinished([base EXCEPT !.i = a.i, !.searched = a.searched,
                                            !.all_results = a.all_results], ret.stream)
        s2   == ApplyReranking(g, s1, Some(a.rerank # "off"), a.rerank # "unavailable",
                               a.rerank)
        s3   == GetContext(g, s2, Some(a.parent # None),
                           IF a.parent = None THEN [ok |-> FALSE, docs |-> {}]
                           ELSE [ok |-> TRUE, docs |-> a.parent[1].documents])
        s4   == IF s1.pc = "done" THEN s1 ELSE Generate(s3, ret.stream, ret.llm)
    IN  IF ret.stream /\ ret.consumed THEN Consume(s4, ret.llm) ELSE s4

\* C3: a summary gate that returns nothing neither ends the query nor
\* records an error: the call goes on to the standard search, and when it is
\* done its answer, chunks, no-results behaviour and trace are those of the
\* same call with summary gating disabled (but for the record that the gate
\* was tried).
C3_GateMissFallsThrough ==
    aq.gate = "miss" =>
        /\ aq.pc \in {"search", "rerank", "context", "generate", "done", "raised"}
        /\ aq.calls.search = 1
        /\ aq.pc = "search" => (aq.ret = None /\ aq.debug.error = None)
        /\ aq.pc = "done" =>
              aq = [StandardReplay(ag, aq) EXCEPT
                       !.gate = "miss",
                       !.debug.summary_gating_used = aq.debug.summary_gating_used,
                       !.calls.gate = aq.calls.gate]

\* an answer generated from search results after the gate found nothing
C3_Witness ==
    /\ aq.gate = "miss" /\ aq.pc = "done" /\ aq.results # <<>>
    /\ aq.calls.llm = 1 /\ aq.parent # None

\* C4: answer_question never raises to its caller, whichever external call
\* fails.
C4_NeverRaises == aq.pc # "raised"

(***************************************************************************)
(* Properties of the per-collection search                                 *)
(***************************************************************************)
\* the budget of a collection: base, plus boost when the configured priority
\* list names it
ConfiguredBudget(rag, name) ==
    CfgGet(rag.base_chunks_per_collection, DefaultBaseChunks)
    + (IF rag.collection_priority # None /\ name \in SeqToSet(rag.collection_priority[1])
       THEN CfgGet(rag.priority_boost, DefaultPriorityBoost) ELSE 0)

\* the same, a configuration without a priority list counting every
\* requested collection as a priority collection
BudgetWithDefault(rag, name) ==
    CfgGet(rag.base_chunks_per_collection, DefaultBaseChunks)
    + (IF rag.collection_priority = None \/ name \in SeqToSet(rag.collection_priority[1])
       THEN CfgGet(rag.priority_boost, DefaultPriorityBoost) ELSE 0)

HybridMode == ~engine.hybrid_disabled /\ engine.bm25_retriever

\* the dense results of a call: the first top_k hits of the vector store,
\* none when no embedding was returned
DenseResults(c) ==
    IF ~c.backend.embed_ok THEN <<>>
    ELSE [i \in 1..Min(c.top_k, Len(c.backend.vector)) |-> Fragment(c.backend.vector[i], c.name)]

\* the sparse results of a call: the first top_k hits of the sparse index
SparseResults(c) ==
    [i \in 1..Min(c.top_k, Len(c.backend.sparse)) |-> Fragment(c.backend.sparse[i], c.name)]

TextsOf(list) == { list[i].text : i \in 1..Len(list) }

NoRepeats(list) == Cardinality(TextsOf(list)) = Len(list)

\* the candidate fragments of one search_collection call: the hits the vector
\* store has, and when the results are fused the fragments that are a dense
\* or a sparse result, each counted once
Candidates(c) ==
    IF HybridMode /\ c.backend.sparse_ok
    THEN Cardinality(TextsOf(DenseResults(c)) \cup TextsOf(SparseResults(c)))
    ELSE Len(c.backend.vector)

C14_NoRerankTruncates ==
    aq.rerank \in {"off", "unavailable"} =>
        /\ aq.chunks = [i \in 1..Min(aq.top_k, Len(aq.results)) |-> aq.results[i]]
        /\ aq.debug.reranking_enabled = FALSE
        /\ aq.debug.chunks_used = Some(Len(aq.chunks))
        /\ aq.calls.rerank = 0
        /\ (aq.pc = "done" => aq.ret[1].chunks = aq.chunks)

\* no reranker was available, the merged list was longer than top_k and the
\* answer has been returned
C14_Witness ==
    /\ aq.rerank = "unavailable"
    /\ aq.pc = "done"
    /\ Len(aq.results) > aq.top_k
    /\ Len(aq.chunks) = aq.top_k

(***************************************************************************)
(* Properties of UnifiedRAG._get_reranker                                  *)
(***************************************************************************)
\* what a _get_reranker call returns when nothing runs beside it
Remembered(g) == IF g.reranker = RerankerFalse THEN RerankerNone ELSE g.reranker

\* C15: over a sequence of queries on one UnifiedRAG, none started while
\* another is in progress, BGEReranker() is attempted at most once, and only
\* inside a _get_reranker call; once self.reranker is set it is never
\* constructed or stored again: after a failure every later call returns None,
\* after a success every later call returns that instance.
C15_ConstructedAtMostOnce ==
    [][ ~ur'.overlapped =>
          /\ ur'.constructions # ur.constructions =>
                /\ ur.constructions = 0 /\ ur'.constructions = 1
                /\ ur.reranker = RerankerNone
                /\ \E t \in Threads : uq[t].pc = "gr_construct" /\ uq[t].calls.get_reranker = 1
          /\ ur.reranker # RerankerNone => ur'.reranker = ur.reranker
          /\ \A t \in Threads :
                (uq[t].pc = "gr_value" /\ uq'[t].pc = "rerank_apply") =>
                    /\ uq'[t].got = Remembered(ur)
                    /\ uq'[t].got \in { RerankerNone, RerankerInstance(1) }
      ]_vars

\* after a failed construction a later query asked for the reranker, got
\* None and constructed nothing
C15_Witness ==
    /\ ~ur.overlapped
    /\ ur.reranker = RerankerFalse /\ ur.constructions = 1
    /\ \E t \in Threads :
          uq[t].pc = "rerank_apply" /\ uq[t].local = RerankerNone /\ uq[t].got = RerankerNone

\* C16: when queries call _get_reranker concurrently while the reranker is
\* unconstructed, it is constructed once and every caller receives that one
\* instance or, after a failure, no reranker.
C16_ConcurrentConstructedOnce ==
    /\ ur.constructions <= 1
    /\ \A t \in Threads :
          uq[t].pc = "rerank_apply" =>
              uq[t].got \in { RerankerNone, RerankerInstance(1) }

\* UnifiedRAG.answer_question without reranking: the chunks are the first
\* top_k of the sorted results and the trace says reranking_enabled = false
UnifiedNoRerankTruncates ==
    \A t \in Threads :
        uq[t].rerank \in {"off", "unavailable"} =>
            /\ uq[t].chunks = [i \in 1..Min(uq[t].top_k, Len(uq[t].all_results)) |->
                                  uq[t].all_results[i]]
            /\ uq[t].debug.reranking_enabled = FALSE
            /\ uq[t].calls.rerank = 0
            /\ (uq[t].pc = "done" => uq[t].ret[1].chunks = uq[t].chunks)

UnifiedNoRerankHappened ==
    \E t \in Threads :
        /\ uq[t].rerank = "unavailable" /\ uq[t].pc = "done"
        /\ Len(uq[t].all_results) > uq[t].top_k /\ Len(uq[t].chunks) = uq[t].top_k

(***************************************************************************)
(* Properties of routing in answer_question                                *)
(***************************************************************************)
ExplicitSelection(a) == a.pc # "idle" /\ a.selected # None /\ a.selected[1] # <<>>

\* UnifiedRAG: an explicit non-empty selection is searched as given, without
\* the router
ExplicitSelectionBypassesRouter ==
    \A t \in Threads :
        ExplicitSelection(uq[t]) =>
            /\ uq[t].calls.router = 0
            /\ uq[t].pc # "raised" \/ uq[t].exc # "router"
            /\ uq[t].collections = uq[t].selected[1]
            /\ uq[t].debug.collections_searched = uq[t].selected[1]
            /\ uq[t].debug.routing_used = Some(FALSE)
            /\ uq[t].debug.token_allocation = Some(uq[t].tokens)

\* AnswerGenerator: a call that did not consult the router has
\* routing_used = false and the token allocation llm.max_tokens
AnswerGeneratorUnroutedTokens ==
    (aq.pc # "idle" /\ aq.calls.router = 0 /\ aq.debug.routing_used # None) =>
        /\ aq.debug.routing_used = Some(FALSE)
        /\ aq.tokens = CfgGet(ag.config.llm_max_tokens, DefaultLLMMaxTokens)
        /\ aq.debug.token_allocation = Some(aq.tokens)

\* C17: with an explicit non-empty collection selection the router is not
\* invoked, the collections searched are the selected ones, the trace has
\* routing_used = false, and the token allocation is the configured default,
\* the value AnswerGenerator takes from the same configuration
\* (llm.max_tokens, 15000 when absent).
C17_ExplicitSelectionDefaultTokens ==
    /\ ExplicitSelectionBypassesRouter
    /\ \A t \in Threads :
          ExplicitSelection(uq[t]) =>
              uq[t].tokens = CfgGet(ur.config.llm_max_tokens, DefaultLLMMaxTokens)

(***************************************************************************)
(* Properties of the trace                                                 *)
(***************************************************************************)
\* C18: on every path through answer_question the returned trace holds
\* routing_used, token_allocation and prompt_length beside the keys it is
\* built with (query, collections_searched, total_results, reranking_enabled,
\* summary_gating_used, parent_docs_used), and answer_length in buffered mode.
C18_TraceComplete ==
    aq.pc = "done" =>
        /\ aq.debug.routing_used # None
        /\ aq.debug.token_allocation # None
        /\ aq.debug.prompt_length
        /\ (~aq.ret[1].stream => aq.debug.answer_length)

\* the trace of every answer the language model was asked for is complete
TraceCompleteWhenGenerated ==
    (aq.pc = "done" /\ aq.debug.error = None) =>
        /\ aq.debug.routing_used # None
        /\ aq.debug.token_allocation # None
        /\ aq.debug.prompt_length
        /\ (~aq.ret[1].stream => aq.debug.answer_length)

(***************************************************************************)
(* Properties of the fusion                                                *)
(***************************************************************************)
\* the two ranked lists hybrid_search fuses: what dense_search returned and
\* the sparse index's answer to top_k
DenseList(c) == DenseResults(c)
SparseList(c) == SparseResults(c)

\* 1-indexed rank of a text in a ranked list, 0 when it is not in it
FirstRank(list, text) ==
    IF \A i \in 1..Len(list) : list[i].text # text THEN 0
    ELSE CHOOSE i \in 1..Len(list) :
            list[i].text = text /\ \A j \in 1..(i - 1) : list[j].text # text

\* 1/(60 + rank) in units of 1/ScoreScale, 0 for a list the text is not in
Reciprocal(rank) == IF rank = 0 THEN 0 ELSE ScoreScale \div (60 + rank)

FusedScore(c, text) ==
    Reciprocal(FirstRank(DenseList(c), text)) + Reciprocal(FirstRank(SparseList(c), text))

Fused(c) == HybridMode /\ c.result.ok /\ c.backend.sparse_ok

\* C19: reciprocal rank fusion with k = 60: every fragment hybrid_search
\* returns carries the sum of 1/(60 + rank) over the dense and the sparse list
\* it is in (2/61 at rank 1 in both, 1/(60 + r) at rank r in one); the result
\* is in descending fused score, holds each fragment once, and is the first
\* top_k of the fused ranking: no fragment left out scores higher than one
\* returned.
C19_ReciprocalRankFusion ==
    \A k \in 1..Len(sm.calls) :
        LET c   == sm.calls[k]
            out == c.result.val
            all == { DenseList(c)[i].text : i \in 1..Len(DenseList(c)) }
                   \cup { SparseList(c)[i].text : i \in 1..Len(SparseList(c)) }
        IN  Fused(c) =>
              /\ \A i \in 1..Len(out) :
                    /\ out[i].text \in all
                    /\ out[i].score = FusedScore(c, out[i].text)
                    /\ (FirstRank(DenseList(c), out[i].text) = 1
                        /\ FirstRank(SparseList(c), out[i].text) = 1)
                          => 61 * out[i].score = 2 * ScoreScale
              /\ \A i, j \in 1..Len(out) :
                    /\ i < j => out[i].score >= out[j].score
                    /\ i # j => out[i].text # out[j].text
              /\ Len(out) = Min(c.top_k, Cardinality(all))
              /\ \A t \in all :
                    (\A i \in 1..Len(out) : out[i].text # t) =>
                        \A i \in 1..Len(out) : out[i].score >= FusedScore(c, t)

\* a fused result whose first fragment is at rank 1 in both lists
C19_Witness ==
    \E k \in 1..Len(sm.calls) :
        /\ Fused(sm.calls[k])
        /\ Len(sm.calls[k].result.val) >= 1
        /\ FirstRank(DenseList(sm.calls[k]), sm.calls[k].result.val[1].text) = 1
        /\ FirstRank(SparseList(sm.calls[k]), sm.calls[k].result.val[1].text) = 1
        /\ 61 * sm.calls[k].result.val[1].score = 2 * ScoreScale

(***************************************************************************)
(* Properties of generate_doc_id                                           *)
(***************************************************************************)
\* the path the identifier of a finished call was made from
NormalizedPath(d) == Normalize(RelativePath(d.cwd, d.file_path, d.base_dir))

SameInputs(d, e) == d.file_path = e.file_path /\ d.base_dir = e.base_dir

\* os.path.relpath does not consult the working directory: no base_dir is
\* used, or file_path and base_dir are both absolute or both relative
CwdFree(d) ==
    \/ d.base_dir = None \/ d.base_dir[1] = <<>> \/ d.file_path = <<>>
    \/ IsAbs(d.file_path) <=> IsAbs(d.base_dir[1])

BothDone == \A r \in Runs : di[r].pc = "done"

HoldsDocument(doc_id) == \E d \in ing.docs : d.doc_id = doc_id /\ d.text # <<>>

\* C21: after any sequence of ingest_file operations, succeeding or failing
\* at any step, every chunk point stored in a vector collection carries a
\* doc_id for which the document store holds a document with non-empty text.
C21_ChunksHaveDocuments == \A p \in ing.chunks : HoldsDocument(p.doc_id)

\* chunk points are stored and a later ingestion of the same file has failed
C21_Witness ==
    /\ ing.chunks # {}
    /\ ing.fi.pc = "done" /\ ing.fi.ret = Some(FALSE)
    /\ \E p \in ing.chunks : p.file = ing.fi.file_path

\* C22: the same source file has the same doc_id in its chunk points, in its
\* summary point and in its document-store entry, for any order in which
\* the directories are ingested and summary-indexed.
C22_SameDocIdEverywhere ==
    \A p \in ing.chunks, q \in ing.summaries :
        p.file = q.file => p.doc_id = q.doc_id /\ HoldsDocument(q.doc_id)

\* the same, told apart by how the indexer got its base directory
C22_IndexerGivenIngestorBase ==
    ing.indexer_base_dir = ing.base_dir => C22_SameDocIdEverywhere

(***************************************************************************)
(* Properties of the order of the stages of answer_question                *)
(***************************************************************************)
\* route -> summary gate -> search -> rerank -> parent expansion and
\* assembly -> generate -> returned
StageRank(pc) ==
    CASE pc = "idle" -> 0
      [] pc = "gate" -> 1
      [] pc = "search" -> 2
      [] pc = "rerank" -> 3
      [] pc = "context" -> 4
      [] pc = "generate" -> 5
      [] OTHER -> 6

\* a step stays in its stage, moves to a later one, or ends the execution
StageOrder ==
    \/ StageRank(aq'.pc) >= StageRank(aq.pc)
    \/ aq.pc \in {"done", "raised"} /\ aq'.pc = "idle"

\* the router, the reranker and the answer model are called at most once
CalledAtMostOnce(a) ==
    a.calls.router <= 1 /\ a.calls.rerank <= 1 /\ a.calls.llm <= 1 /\ a.calls.gate <= 1

Occurrences(list, x) == Cardinality({ i \in 1..Len(list) : list[i] = x })

\* C23: in one answer_question execution the stages occur only in the order
\* route, summary gate, search, rerank, parent expansion, assemble, generate,
\* and no external call is retried: the router is consulted at most once,
\* each selected collection is searched at most once, the reranker is applied
\* at most once and the answer language model is invoked at most once,
\* whatever fails.
C23_StagesInOrderNoRetry ==
    [][/\ StageOrder
       /\ CalledAtMostOnce(aq')
       /\ \A c \in Collections : Occurrences(aq'.searched, c) <= 1]_vars

\* the same with a collection searched once for each time the list names it
StagesInOrderOncePerEntry ==
    [][/\ StageOrder
       /\ CalledAtMostOnce(aq')
       /\ \A c \in Collections :
             Occurrences(aq'.searched, c) <= Occurrences(aq'.collections, c)]_vars

\* an execution that ran every stage after failures of the router's model
\* and of the summary gate
StagesAllRun ==
    /\ aq.pc = "done" /\ aq.gate = "miss" /\ aq.debug.routing_used = Some(TRUE)
    /\ aq.calls.rerank = 1 /\ aq.calls.docstore = 1 /\ aq.calls.llm = 1

(***************************************************************************)
(* Properties of parent-document expansion                                 *)
(***************************************************************************)
\* the position of the first chunk that carries the identifier, 0 if none does
FirstChunkOf(chunks, d) ==
    LET at == { i \in 1..Len(chunks) : chunks[i].doc_id = d }
    IN  IF at = {} THEN 0 ELSE CHOOSE i \in at : \A j \in at : i <= j

ChunkDocIds(chunks) == { chunks[i].doc_id : i \in 1..Len(chunks) } \ { "" }

\* the position in doc_ids of the document a context part was made from
RequestedAt(doc_ids, part) ==
    { i \in 1..Len(doc_ids) : DocText(doc_ids[i]) = part.text }

\* C24: parent-document expansion requests from the document store a list of
\* document identifiers that are pairwise distinct, appear in the order of
\* their first occurrence in the reranked chunk list, and number at most the
\* configured cap (summary_top_n); the context then lists the resolved
\* documents in that same order.
C24_ParentDocIdsDistinctOrderedCapped ==
    aq.parent # None =>
        LET doc_ids   == aq.parent[1].doc_ids
            documents == aq.parent[1].documents
            n         == Len(doc_ids)
        IN  /\ \A i, j \in 1..n : i # j => doc_ids[i] # doc_ids[j]
            /\ \A i \in 1..n : doc_ids[i] \in ChunkDocIds(aq.chunks)
            /\ \A i, j \in 1..n :
                  i < j => FirstChunkOf(aq.chunks, doc_ids[i]) < FirstChunkOf(aq.chunks, doc_ids[j])
            /\ \A d \in ChunkDocIds(aq.chunks), i \in 1..n :
                  FirstChunkOf(aq.chunks, d) < FirstChunkOf(aq.chunks, doc_ids[i])
                      => d \in SeqToSet(doc_ids)
            /\ n = Min(ag.summary_top_n, Cardinality(ChunkDocIds(aq.chunks)))
            /\ documents # {} =>
                  /\ Len(aq.context) = Cardinality(documents)
                  /\ \A k \in 1..Len(aq.context) :
                        \E i \in RequestedAt(doc_ids, aq.context[k]) : doc_ids[i] \in documents
                  /\ \A k, l \in 1..Len(aq.context) :
                        k < l => \A i \in RequestedAt(doc_ids, aq.context[k]),
                                    j \in RequestedAt(doc_ids, aq.context[l]) : i < j

\* two documents requested in the order of their chunks, the second chunk's
\* document first in neither list, and both resolved
C24_Witness ==
    /\ aq.parent # None
    /\ Len(aq.chunks) >= 2
    /\ aq.parent[1].doc_ids = << aq.chunks[1].doc_id, aq.chunks[2].doc_id >>
    /\ aq.parent[1].documents = { aq.chunks[1].doc_id, aq.chunks[2].doc_id }
    /\ aq.chunks[1].doc_id = "d2"
    /\ Len(aq.context) = 2

\* the cap cuts the list: two documents among the chunks, one requested
ParentDocIdsCapped ==
    /\ aq.parent # None
    /\ Cardinality(ChunkDocIds(aq.chunks)) = 2
    /\ Len(aq.parent[1].doc_ids) = 1

\* parent expansion was requested and found nothing to expand
ParentFallback(a) ==
    /\ a.parent # None
    /\ a.parent[1].doc_ids = <<>> \/ a.parent[1].documents = {}

\* the prompts the answer model was given
PromptsGiven(a) ==
    IF a.ret = None THEN {}
    ELSE { a.ret[1].out[i].prompt :
             i \in { i \in 1..Len(a.ret[1].out) : a.ret[1].out[i].kind = "reply" } }

\* C25: when parent-document expansion is requested but no chunk carries a
\* document identifier, or the document store resolves none of the requested
\* identifiers (or fails), the context given to the language model is exactly
\* the chunk-level context that would have been built with parent expansion
\* turned off.
C25_FallbackIsChunkContext ==
    ParentFallback(aq) =>
        /\ aq.context = FormatContext(aq.chunks)
        /\ \A prompt \in PromptsGiven(aq) : prompt.context = FormatContext(aq.chunks)

\* the store resolved none of the identifiers asked for and the answer model
\* has replied
C25_Witness ==
    /\ ParentFallback(aq)
    /\ aq.parent[1].doc_ids # <<>>
    /\ aq.calls.docstore = 1
    /\ PromptsGiven(aq) # {}

\* no chunk carries an identifier
ParentFallbackWithoutIds ==
    /\ ParentFallback(aq)
    /\ aq.parent[1].doc_ids = <<>>
    /\ aq.chunks # <<>>
    /\ PromptsGiven(aq) # {}

(***************************************************************************)
(* Properties of the keyword strategy's token allocation                   *)
(***************************************************************************)
SchedulingQuery(query) ==
    Contains(Lower(query), <<"plan">>) \/ Contains(Lower(query), <<"sched", "ule">>)

RouteSimpleReturned ==
    rq.pc = "returned" /\ (rq.entry = "route_simple" \/ (rq.entry = "route_query" /\ rq.chat = None))

\* C26: in the keyword strategy the token allocation is the base value
\* multiplied by 1.6 whenever the query contains a scheduling keyword ('plan'
\* or 'schedule'), by 1.3 when more than two collections are selected and no
\* scheduling keyword is present, and the base value otherwise: a scheduling
\* query gets the larger factor for every number of selected collections.
C26_SchedulingFactorFirst ==
    RouteSimpleReturned =>
        LET base == LLMMaxTokens(router.config)
            r    == rq.result[1]
        IN  r.token_allocation =
                IF SchedulingQuery(rq.query) THEN Times16(base)
                ELSE IF Len(r.collections) > 2 THEN Times13(base)
                ELSE base

\* the factor of 1.3 for more than two collections comes first
CollectionCountFactorFirst ==
    RouteSimpleReturned =>
        LET base == LLMMaxTokens(router.config)
            r    == rq.result[1]
        IN  r.token_allocation =
                IF Len(r.collections) > 2 THEN Times13(base)
                ELSE IF SchedulingQuery(rq.query) THEN Times16(base)
                ELSE base

\* a scheduling query that selects three collections has been routed
SchedulingQueryManyCollections ==
    /\ RouteSimpleReturned
    /\ SchedulingQuery(rq.query)
    /\ Len(rq.result[1].collections) > 2

(***************************************************************************)
(* Properties of get_documents_by_summaries                                *)
(***************************************************************************)
\* the collection names whose summary query succeeds
RECURSIVE Answering(_, _)
Answering(sb, names) ==
    IF names = <<>> THEN <<>>
    ELSE IF sb.coll[Head(names)].ok THEN <<Head(names)>> \o Answering(sb, Tail(names))
    ELSE Answering(sb, Tail(names))

\* a summary hit names a document the store returns
Resolves(store, hit) == store.ok /\ hit.doc_id # "" /\ hit.doc_id \in store.docs

AtMostTopN == Len(gd.result) <= gd.top_n

ByDescendingScore ==
    \A i, j \in 1..Len(gd.result) : i < j => gd.result[i].score >= gd.result[j].score

EachDocumentOnce ==
    \A i, j \in 1..Len(gd.result) : i # j => gd.result[i].doc_id # gd.result[j].doc_id

FailedCollectionSkipped ==
    gd.result = GetDocumentsBySummaries(gd.sb, gd.store, Answering(gd.sb, gd.names), gd.top_n)

EmptyIffNoneResolves ==
    LET hits == SearchSummaries(gd.sb, gd.names, gd.top_n)
    IN  gd.result = <<>> <=> ~\E i \in 1..Len(hits) : Resolves(gd.store, hits[i])

\* C27: get_documents_by_summaries returns at most top_n documents, ordered
\* by descending summary score across all searched collections, in which each
\* document identifier appears at most once; a summary collection whose query
\* fails is skipped without affecting the hits of the other collections, and
\* the result is empty exactly when no summary hit resolves in the document
\* store.
C27_TopDocumentsOnceEach ==
    gd.pc = "returned" =>
        /\ AtMostTopN
        /\ ByDescendingScore
        /\ EachDocumentOnce
        /\ FailedCollectionSkipped
        /\ EmptyIffNoneResolves

\* the same without the uniqueness: a document is returned once for each of
\* the top summary hits that names it
TopDocumentsOncePerHit ==
    gd.pc = "returned" =>
        /\ AtMostTopN
        /\ ByDescendingScore
        /\ FailedCollectionSkipped
        /\ EmptyIffNoneResolves
        /\ LET hits == SearchSummaries(gd.sb, gd.names, gd.top_n)
           IN  \A d \in DocIds :
                  Cardinality({ i \in 1..Len(gd.result) : gd.result[i].doc_id = d })
                    = Cardinality({ i \in 1..Len(hits) :
                                      hits[i].doc_id = d /\ Resolves(gd.store, hits[i]) })

\* one collection failed, the other's hit was resolved
FailedCollectionBesideHit ==
    /\ gd.pc = "returned"
    /\ Len(gd.names) = 2
    /\ ~gd.sb.coll[gd.names[1]].ok
    /\ gd.result # <<>>

(***************************************************************************)
(* Properties of the trace flags                                           *)
(***************************************************************************)
\* C28: in every trace returned by answer_question, summary_gating_used is
\* true only if the answer's context was built from the documents returned
\* by the summary gate; when the gate is attempted but returns nothing and
\* the query is answered by standard search (or ends in no-results),
\* summary_gating_used is false.
C28_GatingUsedOnlyOnHit ==
    aq.pc = "done" =>
        (aq.debug.summary_gating_used
            => aq.gate = "hit" /\ aq.context = FormatContext(ChunksToContextDocs(aq.docs)))

\* the flag tells that the gate was attempted
GatingUsedIffAttempted ==
    aq.pc = "done" => (aq.debug.summary_gating_used <=> aq.gate \in {"hit", "miss"})

\* the gate missed and standard search answered
GateMissAnswered ==
    /\ aq.pc = "done" /\ aq.gate = "miss" /\ aq.calls.llm = 1
    /\ aq.debug.summary_gating_used

\* the context was built from the text of whole documents: those the gate
\* returned, or those the document store resolved for the chunks
BuiltFromParentDocs(a) ==
    \/ a.gate = "hit" /\ a.context = FormatContext(ChunksToContextDocs(a.docs))
    \/ /\ a.parent # None /\ ~ParentFallback(a)
       /\ a.context = FormatContext(ParentDocsToContext(a.parent[1].documents,
                                                        a.parent[1].doc_ids))

\* C29: in every trace returned by answer_question, parent_docs_used is true
\* only if the context sent to the language model was built from
\* parent-document text; when parent expansion is requested but falls back to
\* the chunk-level context, parent_docs_used is false.
C29_ParentDocsUsedOnlyWhenExpanded ==
    aq.pc = "done" =>
        /\ aq.debug.parent_docs_used => BuiltFromParentDocs(aq)
        /\ ParentFallback(aq) => ~aq.debug.parent_docs_used

\* what _get_context and the gate do: the flag is set as soon as expansion is
\* entered with a document store, or the gate returns documents
ParentDocsUsedIffEntered ==
    aq.pc = "done" =>
        (aq.debug.parent_docs_used <=> aq.gate = "hit" \/ aq.parent # None)

\* without a fallback the flag says where the context came from
ParentDocsUsedRightWithoutFallback ==
    aq.pc = "done" /\ ~ParentFallback(aq) =>
        (aq.debug.parent_docs_used <=> BuiltFromParentDocs(aq))

\* expansion fell back to the chunks, the answer model replied, and the trace
\* says parent documents were used
FallbackAnsweredFlagged ==
    /\ aq.pc = "done" /\ ParentFallback(aq) /\ PromptsGiven(aq) # {}
    /\ aq.context = FormatContext(aq.chunks)
    /\ aq.debug.parent_docs_used

(***************************************************************************)
(* Properties relating the two search_multiple_collections                 *)
(***************************************************************************)
\* C30: the two implementations of multi-collection search are equivalent:
\* for the same query, collection list, per-collection budgets and backend
\* responses, UnifiedRAG.search_multiple_collections and
\* SearchEngine.search_multiple_collections return the same fragments in the
\* same order.  (The loops of the two are the same, so that with the same
\* budgets they collect the same all_results; what either returns is
\* compared with what the other makes of that list.)
C30_ImplementationsEquivalent ==
    sm.pc = "done" =>
        /\ sm.out = SE_Merge(sm.all_results)
        /\ sm.out = UR_Merge(sm.all_results)

\* no two fragments collected share their first 200 characters
DistinctFingerprints(all_results) ==
    \A i, j \in 1..Len(all_results) :
        Fingerprint(all_results[i]) = Fingerprint(all_results[j]) => i = j

\* the two agree exactly when no text was collected twice
EquivalentIffNoRepeatedText ==
    sm.pc = "done" =>
        (SE_Merge(sm.all_results) = UR_Merge(sm.all_results)
            <=> DistinctFingerprints(sm.all_results))

\* UnifiedRAG returned a text twice where SearchEngine returns it once
UnifiedReturnsRepeatedText ==
    /\ sm.pc = "done" /\ sm.impl = "UnifiedRAG"
    /\ Len(sm.names) = 2
    /\ ~DistinctFingerprints(sm.out)
    /\ Len(SE_Merge(sm.all_results)) < Len(sm.out)
====
